---- MODULE Spec2Model ----
(***************************************************************************)
(* A model of the market-monitoring pipeline of bian-monitor:              *)
(*   - MarketMonitor (src/web/services/monitor.py): the per-symbol maps,   *)
(*     update_monitoring_list, _initialize_data, _periodic_update_levels,  *)
(*     the message pipeline, the websocket threads, the analysis loop and  *)
(*     _output_signals;                                                    *)
(*   - listen_to_stream (src/websocket_listener.py): the asyncio reconnect *)
(*     loop of the desktop clients.                                        *)
(* Every worker thread is a record variable holding its position (pc) and  *)
(* its locals; one action is one step of one worker between two points at  *)
(* which another thread can observe or change shared state.                *)
(***************************************************************************)
EXTENDS Integers, Sequences, FiniteSets, TLC

(***************************************************************************)
(* Universe and bounds                                                     *)
(***************************************************************************)
\* the trading pairs the exchange can report
Symbols == {"a", "b", "c"}

\* the symbol lists a MarketMonitor is constructed with
\* (app.py: MarketMonitor(); monitor.py main(): MarketMonitor(['DOGEUSDT']))
CoreChoices == {{}, {"a"}}

\* deque(maxlen=100) of candles, deque(maxlen=20) of depth samples
KlineMaxLen == 100
VolumeMaxLen == 20

\* klines(limit=100): the number of rows the REST bootstrap can return
InitRowLimit == 100

\* bounds of the model: the hourly scans after start-up, the candle and
\* depth frames received, the frames waiting in the queue, the failed
\* connection attempts and lost connections, the last instant of the clock
\* (seconds), the ticks of the analysis loop and the received frames that
\* are not well-formed candle or depth frames
MaxScans == 1
MaxKlineFrames == 2
MaxDepthFrames == 22
MaxQueue == 1
MaxFailures == 1
MaxClock == 310
MaxTicks == 3
MaxBadFrames == 1
MaxAlerts == 6
MaxListenerFrames == 3
MaxMonitors == 3

None == "none"

\* self.ws = None: no WebSocketApp yet (the apps are named by their threads)
NoApp == 0

\* time.sleep(5) in _reconnect and in the except clause of _start_websocket;
\* reconnect_delay=5 in listen_to_stream
ReconnectDelay == 5

NoLoss == -1

\* every failed attempt and every lost connection starts at most two threads
WsThreadIds == 1..(1 + 2 * MaxFailures)

(***************************************************************************)
(* State                                                                   *)
(***************************************************************************)
VARIABLES
    user_define_symbols,  \* self.user_define_symbols
    symbols,              \* self.symbols (a duplicate-free list, as a set)
    kline_buffers,        \* self.kline_buffers: symbol -> deque(maxlen=100)
    volume_buffers,       \* self.volume_buffers: symbol -> deque(maxlen=20)
    key_levels,           \* self.key_levels: symbol -> analyze_key_level()
    latest_data,          \* self.latest_data: symbol -> last candle seen
    last_alert_time,      \* self.last_alert_time: symbol -> time
    kline_data_buffers,   \* self.kline_data_buffers: symbol -> cached history
    telegram,             \* self.telegram is configured
    data_lock,            \* self.data_lock: its holder, or None
    running,              \* self.running (threading.Event)
    message_queue,        \* self.message_queue
    ws,                   \* self.ws: the thread whose WebSocketApp it is
    ws_threads,           \* the threads running _start_websocket
    upd,                  \* start_monitoring/_initialize_data, then the
                          \* _periodic_update_levels thread
    proc,                 \* the _process_messages thread
    ana,                  \* the _analysis_loop thread
    now,                  \* datetime.now(), in seconds
    ls,                   \* one listen_to_stream task
    scorer,               \* one call of _generate_signal: arguments, result
    alert_messages,       \* TelegramNotifier.alert_messages
    sent_messages,        \* what the last send_alert_message handed to
                          \* send_message, message by message
    market_monitor,       \* app.py: the global market_monitor
    monitors,             \* app.py: the MarketMonitor objects and the
                          \* threads of start_market_monitor
    crypto_top,           \* CryptoTop: additional_streams, symbols and
                          \* the keys of history_price
    hist                  \* history (not program state): what was pushed,
                          \* output and attempted, what the last scan saw

mapVars == <<kline_buffers, volume_buffers, key_levels, latest_data,
             last_alert_time, kline_data_buffers>>
regVars == <<user_define_symbols, symbols, kline_buffers, volume_buffers,
             key_levels, latest_data, last_alert_time, kline_data_buffers,
             telegram>>
wsVars == <<ws, ws_threads>>
\* the state of the calls and objects that share nothing with the threads
\* of a MarketMonitor
sideVars == <<scorer, alert_messages, sent_messages, market_monitor,
              monitors, crypto_top>>
\* the state of a MarketMonitor, of its threads and of the listener task
monitorVars == <<regVars, wsVars, data_lock, running, message_queue, upd,
                 proc, ana, now, ls, hist>>
vars == <<user_define_symbols, symbols, kline_buffers, volume_buffers,
          key_levels, latest_data, last_alert_time, kline_data_buffers,
          telegram, data_lock, running, message_queue, ws, ws_threads,
          upd, proc, ana, now, ls, hist, scorer, alert_messages,
          sent_messages, market_monitor, monitors, crypto_top>>

\* min(a, b)
Min(a, b) == IF a <= b THEN a ELSE b

(***************************************************************************)
(* dict and deque                                                          *)
(***************************************************************************)
EmptyMap == [s \in {} |-> 0]

\* d[k] = v
MapPut(m, k, v) == [x \in (DOMAIN m) \cup {k} |-> IF x = k THEN v ELSE m[x]]

\* d.pop(k, None)
MapPop(m, k) == [x \in (DOMAIN m) \ {k} |-> m[x]]

\* for k in ks: d.pop(k, None)
MapPopAll(m, ks) == [x \in (DOMAIN m) \ ks |-> m[x]]

\* a deque that drops the item just appended when it is full
DequeAppend_DropNewest(d, x, maxlen) ==
    IF Len(d) >= maxlen THEN d ELSE Append(d, x)

\* deque(maxlen=n).append(x): a full deque drops its leftmost item
DequeAppend(d, x, maxlen) ==
    IF Len(d) >= maxlen THEN Append(Tail(d), x) ELSE Append(d, x)

\* for x in xs: d.append(x): every append to a full deque drops the
\* leftmost item, so what is left is the tail of d followed by xs
DequeExtend(d, xs, maxlen) ==
    LET all == d \o xs
        n == Len(all)
    IN IF n > maxlen THEN SubSeq(all, n - maxlen + 1, n) ELSE all

\* for k in ks: d[k] = v
MapPutAll(m, ks, v) == [x \in (DOMAIN m) \cup ks |-> IF x \in ks THEN v ELSE m[x]]

\* the rows 1..n of a history, oldest first
Rows(n) == [i \in 1..n |-> i]

(***************************************************************************)
(* Collaborators: the exchange's REST answers                              *)
(***************************************************************************)
Categories == {"volume", "gainers", "losers"}

\* MarketScanner.get_top_symbols: three ranked lists, or {} when the query fails
TopSymbolsResults == {EmptyMap} \cup [Categories -> SUBSET Symbols]

\* CryptoAnalyzer.analyze_key_level: levels, levels with a price rounded to 0,
\* no level at all, or the error record of its except clause
LevelsOk == [resistances |-> <<3>>, supports |-> <<1>>]
LevelsZero == [resistances |-> <<3>>, supports |-> <<0>>]
LevelsNone == [resistances |-> <<>>, supports |-> <<>>]
LevelsError == [error |-> TRUE, message |-> "failed"]
KeyLevelResults == {LevelsOk, LevelsZero, LevelsNone, LevelsError}

\* the numbers of rows DataFetcher.get_kline_data(limit=100) answers with;
\* -1 stands for the exception it raises
KlineFetchResults == {-1, 0, InitRowLimit - 1, InitRowLimit}

\* 0 in list(chain.from_iterable(levels.values())): iterating the error
\* record's True raises TypeError
ZeroCheck(levels) ==
    IF "error" \in DOMAIN levels THEN "raise"
    ELSE IF \E i \in DOMAIN levels.resistances : levels.resistances[i] = 0
         THEN "zero"
    ELSE IF \E i \in DOMAIN levels.supports : levels.supports[i] = 0
         THEN "zero"
    ELSE "nonzero"

(***************************************************************************)
(* MarketMonitor.__init__                                                  *)
(***************************************************************************)
UpdNew == [pc |-> "init", ret |-> "init", todo |-> {}, cur |-> None,
           to_remove |-> {}, added |-> {}, removed |-> {}]

ProcNew == [pc |-> "idle", msg |-> None]

AnaNew == [pc |-> "idle", todo |-> {}, cur |-> None, time |-> 0,
           signal |-> None]

\* waited: the seconds the thread (or the thread that started it) has slept
\* since it last lost a connection or failed to connect, NoLoss before that
WsThreadNew == [pc |-> "none", streams |-> {}, closing |-> FALSE, delays |-> 0,
                waited |-> NoLoss]

LsNew == [pc |-> "idle", n |-> 0, failures |-> 0, drops |-> 0, delays |-> 0,
          attempts |-> 0, cancel_requested |-> FALSE,
          frames |-> 0, handled |-> 0, cause |-> "none"]

\* the last thing _output_signals did: kind is "suppressed", "printed",
\* "sent", "set" (last_alert_time updated) or "raised"
NoEvent == [kind |-> "none", s |-> None, time |-> 0]
Event(kind, s, time) == [kind |-> kind, s |-> s, time |-> time]

\* the open_time of the last candle of a buffer that has received no candle
\* from the stream
NoTime == -1

\* the seconds since the last alert output for s, -1 when there was none
SinceOutput(outputs, s, time) ==
    IF s \in DOMAIN outputs THEN time - outputs[s] ELSE -1

HistNew == [signal |-> None, kline_pushed |-> EmptyMap, volume_pushed |-> EmptyMap,
            scan_prior |-> {}, scan_target |-> {}, scan_failed |-> FALSE,
            scans |-> 0, klines |-> 0, depths |-> 0,
            bucket |-> 0, kline_time |-> EmptyMap,
            bad |-> 0, dropped |-> FALSE, after_drop |-> FALSE,
            received |-> [k \in {"kline", "depth"} |-> [s \in Symbols |-> 0]],
            applied |-> [k \in {"kline", "depth"} |-> [s \in Symbols |-> 0]],
            last_output |-> EmptyMap, gap |-> -1, event |-> NoEvent,
            tick_symbols |-> {}, tick_data |-> {},
            analysed |-> {}, skipped |-> {},
            raised |-> {}, ticks |-> 0,
            attempts |-> 0, failures |-> 0, drops |-> 0,
            stop_requested |-> FALSE, late_attempt |-> FALSE]

\* CryptoTop.__init__ (crypto_alert_terminal.py lines 35-55)
BaseStreams == <<"ethusdt@", "btcusdt@", "solusdt@">>
MaxAdditionalStreams == 2
CryptoTopNew ==
    [additional_streams |-> <<"dogeusdt@">>,
     symbols |-> <<"BTCUSDT", "ETHUSDT", "SOLUSDT", "DOGEUSDT">>,
     history_price |-> {"BTCUSDT", "ETHUSDT", "SOLUSDT", "DOGEUSDT"}]

\* market_monitor = None (app.py line 25)
NoMonitor == 0

\* the MarketMonitor objects app.py can come to create
MonitorIds == 1 .. MaxMonitors

\* a monitor that no thread of start_market_monitor has been started for.
\* When app.py has been imported, init_app(app) has started the thread of
\* the first (line 260) and market_monitor is None (line 25).
MonitorNew == [pc |-> "none", running |-> FALSE, workers |-> FALSE,
               stopped |-> FALSE]

\* no call of _generate_signal has been made
ScorerNew == [pc |-> "idle"]

\* the state after MarketMonitor(symbols), symbols one of cores, with
\* Telegram configured or not (lines 63-74)
InitWith(cores, telegrams) ==
    /\ user_define_symbols \in cores
    /\ symbols = user_define_symbols
    /\ kline_buffers = [s \in user_define_symbols |-> <<>>]
    /\ volume_buffers = [s \in user_define_symbols |-> <<>>]
    /\ key_levels = EmptyMap
    /\ latest_data = EmptyMap
    /\ last_alert_time = EmptyMap
    /\ kline_data_buffers = EmptyMap
    /\ telegram \in telegrams
    /\ data_lock = None
    /\ running = FALSE
    /\ message_queue = <<>>
    /\ ws = NoApp
    /\ ws_threads = [t \in WsThreadIds |-> WsThreadNew]
    /\ upd = UpdNew
    /\ proc = ProcNew
    /\ ana = AnaNew
    /\ now = 0
    /\ ls = LsNew
    /\ scorer = ScorerNew
    /\ alert_messages = <<>>
    /\ sent_messages = <<>>
    /\ market_monitor = NoMonitor
    /\ crypto_top = CryptoTopNew
    /\ monitors = [m \in MonitorIds |->
                     IF m = 1 THEN [MonitorNew EXCEPT !.pc = "spawned"]
                     ELSE MonitorNew]
    /\ hist = [HistNew EXCEPT !.kline_pushed = [s \in user_define_symbols |-> 0],
                              !.volume_pushed = [s \in user_define_symbols |-> 0],
                              !.kline_time = [s \in user_define_symbols |-> NoTime]]

\* what the threads of _initialize_data and _periodic_update_levels never touch
updOthers == <<sideVars, user_define_symbols, telegram, running, message_queue, ws,
               ws_threads, proc, ana, now, ls>>

(***************************************************************************)
(* MarketMonitor.update_monitoring_list                                    *)
(***************************************************************************)
\* all_symbols: the union of the categories present in the answer
AllSymbols(top) == UNION {top[c] : c \in Categories \cap DOMAIN top}

\* added = set(new_symbols) - set(self.symbols)
ScanAdded(new, old) == new \ old

\* a diff that reports the added symbols as removed
ScanRemoved_Swapped(new, old) == new \ old

\* removed = set(self.symbols) - set(new_symbols)
ScanRemoved(new, old) == old \ new

\* lines 80-101: query, diff, self.symbols = new_symbols; sc.tops are the
\* answers the exchange gives in the scenario
UpdateMonitoringList_Fetch(sc) ==
    /\ upd.pc \in {"init", "scan"}
    /\ \E top \in sc.tops :
         LET new == AllSymbols(top) IN
         /\ symbols' = new
         /\ upd' = [upd EXCEPT !.pc = "ul_apply",
                               !.added = ScanAdded(new, symbols),
                               !.removed = ScanRemoved(new, symbols)]
         /\ hist' = [hist EXCEPT !.scan_prior = symbols,
                                 !.scan_target = new,
                                 !.scan_failed = (top = EmptyMap)]
    /\ UNCHANGED <<mapVars, data_lock, updOthers>>

\* lines 106-108: a fresh deque for every added symbol
ApplyAdded(m, added) == MapPutAll(m, added, <<>>)

\* an update that leaves the state of the removed symbols in place
ApplyRemoved_Keep(m, removed) == m

\* lines 111-116: m.pop(symbol, None) for every removed symbol
ApplyRemoved(m, removed) == MapPopAll(m, removed)

\* lines 104-116, under data_lock
UpdateMonitoringList_Apply ==
    /\ upd.pc = "ul_apply"
    /\ data_lock = None
    /\ kline_buffers' = ApplyRemoved(ApplyAdded(kline_buffers, upd.added), upd.removed)
    /\ volume_buffers' = ApplyRemoved(ApplyAdded(volume_buffers, upd.added), upd.removed)
    /\ key_levels' = ApplyRemoved(key_levels, upd.removed)
    /\ latest_data' = ApplyRemoved(latest_data, upd.removed)
    /\ last_alert_time' = ApplyRemoved(last_alert_time, upd.removed)
    /\ hist' = [hist EXCEPT
                  !.kline_pushed = ApplyRemoved(MapPutAll(@, upd.added, 0), upd.removed),
                  !.kline_time = ApplyRemoved(MapPutAll(@, upd.added, NoTime), upd.removed),
                  !.volume_pushed = ApplyRemoved(MapPutAll(@, upd.added, 0), upd.removed)]
    \* back in the caller: for symbol in self.symbols
    /\ upd' = [upd EXCEPT !.pc = "loop", !.todo = symbols, !.to_remove = {}]
    /\ UNCHANGED <<symbols, kline_data_buffers, data_lock, updOthers>>

(***************************************************************************)
(* MarketMonitor._initialize_data and _periodic_update_levels              *)
(***************************************************************************)
\* with self.data_lock: entered for one symbol of the for loop; the REST
\* calls of the block are made with the lock held
Levels_Acquire ==
    /\ upd.pc = "loop"
    /\ data_lock = None
    /\ \E s \in upd.todo :
         upd' = [upd EXCEPT !.pc = "levels", !.cur = s, !.todo = @ \ {s}]
    /\ data_lock' = "upd"
    /\ UNCHANGED <<symbols, mapVars, hist, updOthers>>

\* lines 135-140 and 248-253: the five pops for a symbol with a zero level
Levels_PopZero(s, levels) ==
    /\ kline_buffers' = MapPop(kline_buffers, s)
    /\ volume_buffers' = MapPop(volume_buffers, s)
    /\ key_levels' = MapPop(MapPut(key_levels, s, levels), s)
    /\ latest_data' = MapPop(latest_data, s)
    /\ last_alert_time' = MapPop(last_alert_time, s)
    /\ hist' = [hist EXCEPT !.kline_pushed = MapPop(@, s),
                            !.volume_pushed = MapPop(@, s),
                            !.kline_time = MapPop(@, s)]

\* lines 129-158 for one symbol: every exception ends at the except clause
\* inside the loop, and the loop goes on
InitializeData_Symbol(sc) ==
    /\ upd.pc = "levels"
    /\ upd.ret = "init"
    /\ LET s == upd.cur IN
       \E levels \in sc.levels :
         \/ /\ ZeroCheck(levels) = "raise"
            /\ key_levels' = MapPut(key_levels, s, levels)
            /\ upd' = [upd EXCEPT !.pc = "loop", !.cur = None]
            /\ UNCHANGED <<kline_buffers, volume_buffers, latest_data,
                           last_alert_time, hist>>
         \/ /\ ZeroCheck(levels) = "zero"
            /\ Levels_PopZero(s, levels)
            /\ upd' = [upd EXCEPT !.pc = "loop", !.cur = None,
                                  !.to_remove = @ \cup {s}]
         \/ /\ ZeroCheck(levels) = "nonzero"
            /\ key_levels' = MapPut(key_levels, s, levels)
            /\ upd' = [upd EXCEPT !.pc = "loop", !.cur = None]
            /\ \E n \in sc.rows :
                 IF n >= 0 /\ s \in DOMAIN kline_buffers
                 THEN /\ kline_buffers' =
                           [kline_buffers EXCEPT
                              ![s] = DequeExtend(@, Rows(n), KlineMaxLen)]
                      /\ hist' = [hist EXCEPT !.kline_pushed[s] = @ + n]
                 ELSE UNCHANGED <<kline_buffers, hist>>
            /\ UNCHANGED <<volume_buffers, latest_data, last_alert_time>>
    /\ data_lock' = None
    /\ UNCHANGED <<symbols, kline_data_buffers, updOthers>>

\* lines 238-253 for one symbol: an exception leaves the for loop for the
\* except clause of line 259, and the pass ends there
PeriodicUpdateLevels_Symbol(sc) ==
    /\ upd.pc = "levels"
    /\ upd.ret = "periodic"
    /\ LET s == upd.cur IN
       \E levels \in sc.levels :
         \/ /\ ZeroCheck(levels) = "raise"
            /\ key_levels' = MapPut(key_levels, s, levels)
            /\ upd' = [upd EXCEPT !.pc = "err_sleep", !.cur = None]
            /\ UNCHANGED <<kline_buffers, volume_buffers, latest_data,
                           last_alert_time, hist>>
         \/ /\ ZeroCheck(levels) = "zero"
            /\ Levels_PopZero(s, levels)
            /\ upd' = [upd EXCEPT !.pc = "loop", !.cur = None,
                                  !.to_remove = @ \cup {s}]
         \/ /\ ZeroCheck(levels) = "nonzero"
            /\ key_levels' = MapPut(key_levels, s, levels)
            /\ upd' = [upd EXCEPT !.pc = "loop", !.cur = None]
            /\ UNCHANGED <<kline_buffers, volume_buffers, latest_data,
                           last_alert_time, hist>>
    /\ data_lock' = None
    /\ UNCHANGED <<symbols, kline_data_buffers, updOthers>>

\* self.symbols = [x for x in self.symbols if x not in symbols_to_remove]
KeepMonitored(syms, to_remove) == syms \ to_remove

\* line 165: the end of _initialize_data
InitializeData_End ==
    /\ upd.pc = "loop"
    /\ upd.todo = {}
    /\ upd.ret = "init"
    /\ symbols' = KeepMonitored(symbols, upd.to_remove)
    /\ upd' = [upd EXCEPT !.pc = "start"]
    /\ UNCHANGED <<mapVars, data_lock, hist, updOthers>>

\* lines 255-257: the end of one pass of _periodic_update_levels
PeriodicUpdateLevels_End ==
    /\ upd.pc = "loop"
    /\ upd.todo = {}
    /\ upd.ret = "periodic"
    /\ symbols' = KeepMonitored(symbols, upd.to_remove)
    /\ upd' = [upd EXCEPT !.pc = "while"]
    /\ UNCHANGED <<mapVars, data_lock, hist, updOthers>>

\* while self.running.is_set(): time.sleep(3600)
PeriodicUpdateLevels_While ==
    /\ upd.pc = "while"
    /\ upd' = [upd EXCEPT !.pc = IF running THEN "sleep" ELSE "exit"]
    /\ UNCHANGED <<symbols, mapVars, data_lock, hist, updOthers>>

\* the hour has passed: self.update_monitoring_list(); a scenario has
\* sc.scans passes, or passes without end (sc.rescan)
PeriodicUpdateLevels_Wake(sc) ==
    /\ upd.pc = "sleep"
    /\ sc.rescan \/ hist.scans < sc.scans
    /\ upd' = [upd EXCEPT !.pc = "scan"]
    /\ hist' = [hist EXCEPT !.scans = IF sc.rescan THEN @ ELSE @ + 1]
    /\ UNCHANGED <<symbols, mapVars, data_lock, updOthers>>

\* lines 259-261: time.sleep(60), then the while test again
PeriodicUpdateLevels_Except ==
    /\ upd.pc = "err_sleep"
    /\ upd' = [upd EXCEPT !.pc = "while"]
    /\ UNCHANGED <<symbols, mapVars, data_lock, hist, updOthers>>

(***************************************************************************)
(* MarketMonitor.start_monitoring and stop                                 *)
(***************************************************************************)
\* lines 1609-1627: the flag is set and the four threads are started
StartMonitoring ==
    /\ upd.pc = "start"
    /\ running' = TRUE
    /\ ws_threads' = [ws_threads EXCEPT ![1].pc = "start"]
    /\ proc' = [proc EXCEPT !.pc = "get"]
    /\ ana' = [ana EXCEPT !.pc = "while"]
    /\ upd' = [upd EXCEPT !.pc = "while", !.ret = "periodic"]
    /\ UNCHANGED <<regVars, sideVars, data_lock, message_queue, ws, now, ls, hist>>

\* WebSocketApp.close() on the app of thread t: its run_forever ends
CloseApp(threads, t) ==
    IF t # NoApp /\ threads[t].pc \in {"connecting", "open"}
    THEN [threads EXCEPT ![t].closing = TRUE]
    ELSE threads

\* lines 1633-1635: self.running.clear(); if self.ws: self.ws.close()
Stop ==
    /\ running
    /\ running' = FALSE
    /\ ws_threads' = CloseApp(ws_threads, ws)
    /\ hist' = [hist EXCEPT !.stop_requested = TRUE]
    /\ UNCHANGED <<regVars, sideVars, data_lock, message_queue, ws, upd, proc, ana,
                   now, ls>>

(***************************************************************************)
(* MarketMonitor._start_websocket and _reconnect                           *)
(***************************************************************************)
wsOthers == <<regVars, sideVars, data_lock, running, upd, proc, ana, now, ls>>

\* a loop test that always ends the thread
WhileRunning_Exit(flag) == "exit"

\* while self.running.is_set()
WhileRunning(flag) == IF flag THEN "create" ELSE "exit"

\* lines 186-194: the stream list is built from self.symbols once, when the
\* thread starts; then the first while test
Ws_Start(t) ==
    /\ ws_threads[t].pc = "start"
    /\ ws_threads' = [ws_threads EXCEPT ![t].streams = symbols,
                                        ![t].pc = WhileRunning(running)]
    /\ UNCHANGED <<ws, message_queue, hist, wsOthers>>

\* line 194, on every later turn of the loop
Ws_While(t) ==
    /\ ws_threads[t].pc = "while"
    /\ ws_threads' = [ws_threads EXCEPT ![t].pc = WhileRunning(running)]
    /\ UNCHANGED <<ws, message_queue, hist, wsOthers>>

\* lines 196-204: self.ws = WebSocketApp(...); run_forever() starts to connect
Ws_Create(t) ==
    /\ ws_threads[t].pc = "create"
    /\ ws' = t
    /\ ws_threads' = [ws_threads EXCEPT ![t].pc = "connecting",
                                        ![t].closing = FALSE]
    /\ hist' = [hist EXCEPT !.attempts = @ + 1,
                            !.late_attempt = @ \/ hist.stop_requested]
    /\ UNCHANGED <<message_queue, wsOthers>>

\* the connection is established: on_open
Ws_Opened(t) ==
    /\ ws_threads[t].pc = "connecting"
    /\ ~ws_threads[t].closing
    /\ ws_threads' = [ws_threads EXCEPT ![t].pc = "open"]
    /\ UNCHANGED <<ws, message_queue, hist, wsOthers>>

\* the attempt fails: run_forever calls on_error, then on_close
Ws_ConnectFailed(t, sc) ==
    /\ ws_threads[t].pc = "connecting"
    /\ hist.failures < sc.failures
    /\ ws_threads' = [ws_threads EXCEPT ![t].pc = "on_error",
                                        ![t].waited = 0]
    /\ hist' = [hist EXCEPT !.failures = @ + 1]
    /\ UNCHANGED <<ws, message_queue, wsOthers>>

\* lines 205-207: run_forever raises; time.sleep(5) in the except clause
Ws_ConnectRaised(t, sc) ==
    /\ ws_threads[t].pc = "connecting"
    /\ hist.failures < sc.failures
    /\ ws_threads' = [ws_threads EXCEPT ![t].pc = "exc_sleep",
                                        ![t].waited = 0]
    /\ hist' = [hist EXCEPT !.failures = @ + 1]
    /\ UNCHANGED <<ws, message_queue, wsOthers>>

\* the open connection is lost (I/O error, timeout): on_error, then on_close
Ws_Dropped(t, sc) ==
    /\ ws_threads[t].pc = "open"
    /\ hist.drops < sc.drops
    /\ hist.failures + hist.drops < MaxFailures
    /\ ws_threads' = [ws_threads EXCEPT ![t].pc = "on_error",
                                        ![t].waited = 0]
    /\ hist' = [hist EXCEPT !.drops = @ + 1]
    /\ UNCHANGED <<ws, message_queue, wsOthers>>

\* the server closes the connection: on_close alone
Ws_RemoteClosed(t, sc) ==
    /\ ws_threads[t].pc = "open"
    /\ hist.drops < sc.drops
    /\ hist.failures + hist.drops < MaxFailures
    /\ ws_threads' = [ws_threads EXCEPT ![t].pc = "on_close",
                                        ![t].waited = 0]
    /\ hist' = [hist EXCEPT !.drops = @ + 1]
    /\ UNCHANGED <<ws, message_queue, wsOthers>>

\* close() was called on the thread's app: run_forever ends with on_close
Ws_LocalClosed(t) ==
    /\ ws_threads[t].pc \in {"connecting", "open"}
    /\ ws_threads[t].closing
    /\ ws_threads' = [ws_threads EXCEPT ![t].pc = "on_close",
                                        ![t].closing = FALSE]
    /\ UNCHANGED <<ws, message_queue, hist, wsOthers>>

\* a _reconnect that returns at once
ReconnectTest_Skip(flag, sleep, skip) == skip

\* _reconnect, line 1048: if self.running.is_set()
ReconnectTest(flag, sleep, skip) == IF flag THEN sleep ELSE skip

\* on_error (line 176): self._reconnect()
Ws_OnError(t) ==
    /\ ws_threads[t].pc = "on_error"
    /\ ws_threads' = [ws_threads EXCEPT
                        ![t].pc = ReconnectTest(running, "err_sleep", "on_close")]
    /\ UNCHANGED <<ws, message_queue, hist, wsOthers>>

\* on_close (line 180): self._reconnect()
Ws_OnClose(t) ==
    /\ ws_threads[t].pc = "on_close"
    /\ ws_threads' = [ws_threads EXCEPT
                        ![t].pc = ReconnectTest(running, "close_sleep", "while")]
    /\ UNCHANGED <<ws, message_queue, hist, wsOthers>>

\* the thread ids not yet used
FreeThreads == {u \in WsThreadIds : ws_threads[u].pc = "none"}

\* _reconnect, lines 1050-1051: time.sleep(5) is over,
\* threading.Thread(target=self._start_websocket).start(); the callback
\* returns to run_forever (next is the position after the callback)
Ws_ReconnectSpawn(t) ==
    /\ ws_threads[t].pc \in {"err_sleep", "close_sleep"}
    /\ FreeThreads # {}
    /\ LET u == CHOOSE x \in FreeThreads : \A y \in FreeThreads : x <= y
           next == IF ws_threads[t].pc = "err_sleep" THEN "on_close" ELSE "while"
       IN ws_threads' = [ws_threads EXCEPT
                           ![t].pc = next,
                           ![t].delays = @ + 1,
                           ![t].waited = @ + ReconnectDelay,
                           ![u] = [WsThreadNew EXCEPT
                                     !.pc = "start",
                                     !.delays = ws_threads[t].delays + 1,
                                     !.waited = ws_threads[t].waited
                                                + ReconnectDelay]]
    /\ UNCHANGED <<ws, message_queue, hist, wsOthers>>

\* line 207: time.sleep(5) is over, back to the while test
Ws_ExceptSleepDone(t) ==
    /\ ws_threads[t].pc = "exc_sleep"
    /\ ws_threads' = [ws_threads EXCEPT ![t].pc = "while", ![t].delays = @ + 1,
                                        ![t].waited = @ + ReconnectDelay]
    /\ UNCHANGED <<ws, message_queue, hist, wsOthers>>

(***************************************************************************)
(* The message pipeline: on_message, _process_messages, the two handlers   *)
(***************************************************************************)
StreamKinds == {"kline", "depth"}

\* what a connection can deliver besides: a frame of another stream or
\* without a stream name, and a frame that is not JSON or lacks a field
FrameKinds == StreamKinds \cup {"other", "malformed"}

\* a frame of the combined stream: '<symbol>@kline_5m' or
\* '<symbol>@depth5@1000ms', for a symbol of the connection's stream list;
\* t is the open time k.t of a candle frame (the number of its five-minute
\* bucket), 0 in a depth frame; n is the place of the frame among those the
\* monitor has received of its stream (0 in a frame of no known stream)
Frame(kind, s, t, n) == [stream |-> kind, s |-> s, t |-> t, n |-> n]

\* a queue whose get returns the item put last
QueuePut_Front(q, m) == <<m>> \o q

\* queue.Queue.put: get returns the items in the order they were put
QueuePut(q, m) == Append(q, m)

\* on_message (lines 170-172): if self.running.is_set(): queue.put(message);
\* sc.klines and sc.depths bound the frames of the scenario, sc.kinds are
\* the kinds of frame it sends and sc.queue the frames that can wait in the
\* queue. A candle frame is an update of the exchange's current bucket or
\* the first of a later one (sc.steps).
OnMessage(t, sc) ==
    /\ ws_threads[t].pc = "open"
    /\ running
    /\ Len(message_queue) < sc.queue
    /\ \E s \in ws_threads[t].streams, kind \in sc.kinds :
         \E d \in IF kind = "kline" THEN sc.steps ELSE {0} :
         LET bucket == hist.bucket + d
             time == IF kind = "kline" THEN bucket ELSE 0
             n == IF kind \in StreamKinds
                  THEN hist.received[kind][s] + 1 ELSE 0
         IN
         /\ kind = "kline" => hist.klines < sc.klines
         /\ kind = "depth" => hist.depths < sc.depths
         /\ kind \notin StreamKinds => hist.bad < MaxBadFrames
         /\ message_queue' = QueuePut(message_queue, Frame(kind, s, time, n))
         /\ hist' = [hist EXCEPT
                       !.klines = IF kind = "kline" THEN @ + 1 ELSE @,
                       !.depths = IF kind = "depth" THEN @ + 1 ELSE @,
                       !.bad = IF kind \notin StreamKinds THEN @ + 1 ELSE @,
                       !.bucket = bucket,
                       !.received = IF kind \in StreamKinds
                                    THEN [@ EXCEPT ![kind][s] = n] ELSE @]
    /\ UNCHANGED <<regVars, sideVars, data_lock, running, ws, ws_threads, upd, proc,
                   ana, now, ls>>

procOthers == <<sideVars, user_define_symbols, symbols, telegram, running, ws,
                ws_threads, upd, ana, now, ls>>

\* lines 211-215: while running: message = self.message_queue.get(timeout=1)
ProcessMessages_Get ==
    /\ proc.pc = "get"
    /\ running
    /\ message_queue # <<>>
    /\ proc' = [proc EXCEPT !.pc = "handle", !.msg = Head(message_queue)]
    /\ message_queue' = Tail(message_queue)
    /\ UNCHANGED <<mapVars, data_lock, hist, procOthers>>

\* line 211: the flag is clear, the thread ends
ProcessMessages_Exit ==
    /\ proc.pc = "get"
    /\ ~running
    /\ proc' = [proc EXCEPT !.pc = "exit"]
    /\ UNCHANGED <<mapVars, data_lock, message_queue, hist, procOthers>>

\* _handle_kline_data, lines 270-289 under data_lock: the candle is appended
\* and latest_data set; a symbol without a buffer raises KeyError, which the
\* handler's except clause swallows. The candle is numbered by its place in
\* what was pushed to the buffer; hist.kline_time keeps its open_time.
HandleKlineData(msg) ==
    LET s == msg.s IN
    IF s \in DOMAIN kline_buffers
    THEN LET candle == hist.kline_pushed[s] + 1 IN
         /\ kline_buffers' = [kline_buffers EXCEPT
                                ![s] = DequeAppend(@, candle, KlineMaxLen)]
         /\ latest_data' = MapPut(latest_data, s, candle)
         /\ hist' = [hist EXCEPT !.kline_pushed[s] = candle,
                                 !.kline_time[s] = msg.t,
                                 !.applied["kline"][s] = msg.n,
                                 !.after_drop = @ \/ hist.dropped]
         /\ UNCHANGED volume_buffers
    ELSE /\ hist' = [hist EXCEPT !.dropped = TRUE]
         /\ UNCHANGED <<kline_buffers, latest_data, volume_buffers>>

\* _handle_depth_data, lines 303-311 under data_lock
HandleDepthData(msg) ==
    LET s == msg.s IN
    IF s \in DOMAIN volume_buffers
    THEN LET sample == hist.volume_pushed[s] + 1 IN
         /\ volume_buffers' = [volume_buffers EXCEPT
                                 ![s] = DequeAppend(@, sample, VolumeMaxLen)]
         /\ hist' = [hist EXCEPT !.volume_pushed[s] = sample,
                                 !.applied["depth"][s] = msg.n,
                                 !.after_drop = @ \/ hist.dropped]
         /\ UNCHANGED <<kline_buffers, latest_data>>
    ELSE /\ hist' = [hist EXCEPT !.dropped = TRUE]
         /\ UNCHANGED <<kline_buffers, latest_data, volume_buffers>>

\* an exception that ends the message-processing thread
ExceptInMessage_Exit(pc) == "exit"

\* lines 225-227: except Exception: print, time.sleep(0.1), and the while
\* loop goes on
ExceptInMessage(pc) == pc

\* lines 215-221: the frame is parsed and routed by its stream name; a frame
\* of no known stream is passed over, one that json.loads or the lookup of
\* its fields rejects raises into the except clause of line 225 (the
\* handlers take the lock only for a frame they route to a buffer)
ProcessMessages_Handle ==
    /\ proc.pc = "handle"
    /\ proc.msg.stream \in StreamKinds => data_lock = None
    /\ CASE proc.msg.stream = "kline" ->
              /\ HandleKlineData(proc.msg)
              /\ proc' = [proc EXCEPT !.pc = "get", !.msg = None]
         [] proc.msg.stream = "depth" ->
              /\ HandleDepthData(proc.msg)
              /\ proc' = [proc EXCEPT !.pc = "get", !.msg = None]
         [] proc.msg.stream = "malformed" ->
              /\ hist' = [hist EXCEPT !.dropped = TRUE]
              /\ proc' = [proc EXCEPT !.pc = ExceptInMessage("get"),
                                      !.msg = None]
              /\ UNCHANGED <<kline_buffers, latest_data, volume_buffers>>
         [] OTHER ->
              /\ hist' = [hist EXCEPT !.dropped = TRUE]
              /\ proc' = [proc EXCEPT !.pc = "get", !.msg = None]
              /\ UNCHANGED <<kline_buffers, latest_data, volume_buffers>>
    /\ UNCHANGED <<key_levels, last_alert_time, kline_data_buffers, data_lock,
                   message_queue, procOthers>>

(***************************************************************************)
(* MarketMonitor._analysis_loop, _analyze_symbol and _output_signals       *)
(***************************************************************************)
\* the signal types of _generate_signal, and those sent to Telegram
SignalTypes == {"strong_buy", "buy", "sell", "strong_sell"}
TelegramTypes == {"buy", "strong_buy", "strong_sell"}
StrongTypes == {"strong_buy", "strong_sell"}

\* what _analyze_symbol comes to after caching the history: too few rows
\* (return at line 1139), an exception in an evaluation or in scoring
\* (lines 1142-1188), no signal, or one signal of a type
AnalysisOutcomes == {"insufficient", "error", "none"} \cup SignalTypes

\* total_seconds() < 300
AlertCooldown == 300

\* time.sleep(10) at the end of a tick
AnalysisSleep == 10

\* lines 1425-1429: the symbol alerted less than five minutes ago
InCooldown(alerts, s, time) ==
    s \in DOMAIN alerts /\ time - alerts[s] < AlertCooldown

\* the parameters of TelegramNotifier.format_signal_message, those without
\* a default, and the keywords of the call at monitor.py lines 1488-1497
FormatParams == {"symbol", "signal_type", "current_price", "signal_score",
                 "technical_scores", "trend_alignment", "volume_data",
                 "risk_level", "reason"}
FormatRequired == {"symbol", "signal_type", "current_price", "signal_score",
                   "technical_scores", "trend_alignment", "volume_data"}
FormatCallKeywords == {"symbol", "signal_type", "current_price",
                       "signal_score", "risk_level", "volume_data",
                       "reasons", "action_guide"}

\* Python binds a call when every keyword names a parameter and every
\* parameter without a default is given; otherwise the call raises TypeError
CallBinds(keywords, params, required) ==
    keywords \subseteq params /\ required \subseteq keywords

anaOthers == <<sideVars, user_define_symbols, symbols, kline_buffers, volume_buffers,
               key_levels, latest_data, telegram, running, message_queue,
               ws, ws_threads, upd, proc, ls>>

\* lines 1055-1059: current_time = datetime.now(); the for loop iterates the
\* list that self.symbols names at this moment
AnalysisLoop_While ==
    /\ ana.pc = "while"
    /\ IF running
       THEN /\ ana' = [ana EXCEPT !.pc = "for", !.todo = symbols, !.time = now]
            /\ hist' = [hist EXCEPT !.tick_symbols = symbols,
                                    !.tick_data = symbols \cap DOMAIN latest_data,
                                    !.analysed = {}, !.skipped = {},
                                    !.raised = {}]
       ELSE /\ ana' = [ana EXCEPT !.pc = "exit"]
            /\ UNCHANGED hist
    /\ UNCHANGED <<last_alert_time, kline_data_buffers, data_lock, now,
                   anaOthers>>

\* an exception that leaves the for loop: the rest of the batch is dropped
ExceptInSymbol_Abort(rest) == {}

\* lines 1195-1199: the exception is caught inside _analyze_symbol, so the
\* for loop goes on with the symbols that are left
ExceptInSymbol(rest) == rest

\* lines 1060-1063 for one symbol, under data_lock: a symbol without
\* latest_data is passed over; otherwise _analyze_symbol caches the history
\* (line 1133) and runs to its return, to its except clause, or into
\* _output_signals, where an alert outside the cooldown is printed and the
\* thread stops in pdb.set_trace() with the lock held
AnalyzeSymbol(sc) ==
    /\ ana.pc = "for"
    /\ data_lock = None
    /\ \E s \in ana.todo :
         LET rest == ana.todo \ {s} IN
         IF s \notin DOMAIN latest_data
         THEN /\ ana' = [ana EXCEPT !.todo = rest]
              /\ hist' = [hist EXCEPT !.skipped = @ \cup {s}]
              /\ UNCHANGED <<kline_data_buffers, data_lock>>
         ELSE
           /\ kline_data_buffers' = MapPut(kline_data_buffers, s, latest_data[s])
           /\ \E outcome \in sc.analysis :
                \/ /\ outcome \in {"insufficient", "none"}
                   /\ ana' = [ana EXCEPT !.todo = rest]
                   /\ hist' = [hist EXCEPT !.analysed = @ \cup {s}]
                   /\ UNCHANGED data_lock
                \/ /\ outcome = "error"
                   /\ ana' = [ana EXCEPT !.todo = ExceptInSymbol(rest)]
                   /\ hist' = [hist EXCEPT !.analysed = @ \cup {s},
                                           !.raised = @ \cup {s}]
                   /\ UNCHANGED data_lock
                \/ /\ outcome \in SignalTypes
                   /\ InCooldown(last_alert_time, s, ana.time)
                   /\ ana' = [ana EXCEPT !.todo = rest]
                   /\ hist' = [hist EXCEPT
                                 !.analysed = @ \cup {s},
                                 !.signal = outcome,
                                 !.event = Event("suppressed", s, ana.time)]
                   /\ UNCHANGED data_lock
                \/ /\ outcome \in SignalTypes
                   /\ ~InCooldown(last_alert_time, s, ana.time)
                   /\ ana' = [ana EXCEPT !.pc = "pdb", !.todo = rest,
                                         !.cur = s, !.signal = outcome]
                   /\ hist' = [hist EXCEPT
                                 !.analysed = @ \cup {s},
                                 !.signal = outcome,
                                 !.last_output = MapPut(@, s, ana.time),
                                 !.gap = SinceOutput(hist.last_output, s, ana.time),
                                 !.event = Event("printed", s, ana.time)]
                   /\ data_lock' = "ana"
    /\ UNCHANGED <<last_alert_time, now, anaOthers>>

\* lines 1482-1501 once the debugger is told to continue: the Telegram
\* branch calls format_signal_message, whose TypeError leaves through the
\* except clause of _analyze_symbol before line 1500; otherwise
\* last_alert_time is set to the tick's time
OutputSignals_Continue ==
    /\ ana.pc = "pdb"
    /\ LET s == ana.cur IN
       IF telegram /\ ana.signal \in TelegramTypes
       THEN IF CallBinds(FormatCallKeywords, FormatParams, FormatRequired)
            THEN /\ hist' = [hist EXCEPT !.event = Event("sent", s, ana.time)]
                 /\ last_alert_time' = MapPut(last_alert_time, s, ana.time)
                 /\ ana' = [ana EXCEPT !.pc = "for", !.cur = None,
                                       !.signal = None]
            ELSE /\ hist' = [hist EXCEPT !.raised = @ \cup {s},
                                         !.event = Event("raised", s, ana.time)]
                 /\ ana' = [ana EXCEPT !.pc = "for", !.cur = None,
                                       !.signal = None,
                                       !.todo = ExceptInSymbol(@)]
                 /\ UNCHANGED last_alert_time
       ELSE /\ last_alert_time' = MapPut(last_alert_time, s, ana.time)
            /\ ana' = [ana EXCEPT !.pc = "for", !.cur = None, !.signal = None]
            /\ hist' = [hist EXCEPT !.event = Event("set", s, ana.time)]
    /\ data_lock' = None
    /\ UNCHANGED <<kline_data_buffers, now, anaOthers>>

\* line 1480 when the debugger quits (q, or end of input on stdin): BdbQuit,
\* an Exception, leaves through the except clause of _analyze_symbol
OutputSignals_PdbQuit ==
    /\ ana.pc = "pdb"
    /\ hist' = [hist EXCEPT !.raised = @ \cup {ana.cur},
                            !.event = Event("raised", ana.cur, ana.time)]
    /\ ana' = [ana EXCEPT !.pc = "for", !.cur = None, !.signal = None,
                          !.todo = ExceptInSymbol(@)]
    /\ data_lock' = None
    /\ UNCHANGED <<last_alert_time, kline_data_buffers, now, anaOthers>>

\* line 1066: the for loop is over, time.sleep(10)
AnalysisLoop_Sleep ==
    /\ ana.pc = "for"
    /\ ana.todo = {}
    /\ ana' = [ana EXCEPT !.pc = "sleep"]
    /\ hist' = [hist EXCEPT !.ticks = IF @ < MaxTicks THEN @ + 1 ELSE @]
    /\ UNCHANGED <<last_alert_time, kline_data_buffers, data_lock, now,
                   anaOthers>>

\* the sleep is over: the tick took d seconds, d one of sc.ticks and at
\* least the ten seconds slept; sc.clock is the last instant of the scenario
\* and sc.maxticks its number of ticks. A scenario whose loops run without
\* end (sc.rescan) does not keep the time.
AnalysisLoop_Wake(sc) ==
    /\ ana.pc = "sleep"
    /\ IF sc.rescan
       THEN now' = now
       ELSE /\ hist.ticks < sc.maxticks
            /\ \E d \in sc.ticks :
                 /\ d >= AnalysisSleep
                 /\ now + d <= sc.clock
                 /\ now' = now + d
    /\ ana' = [ana EXCEPT !.pc = "while"]
    /\ UNCHANGED <<last_alert_time, kline_data_buffers, data_lock, hist,
                   anaOthers>>

(***************************************************************************)
(* MarketMonitor._generate_signal and _determine_signal_type               *)
(***************************************************************************)
\* scores run from 0 to 100 (min(100, final_score))
ScoreMax == 100

\* the thresholds of step 4 of _generate_signal
StrongBuyScore == 80
BuyScore == 65
StrongSellScore == 20
SellScore == 35
\* what a strong signal asks of the volume and price scores
StrongBuyVolume == 70
StrongBuyPrice == 60
StrongSellVolume == 30

\* the thresholds of _determine_signal_type that differ
LegacyStrongBuyScore == 75
LegacyStrongSellScore == 25

\* arguments on both sides of every test of _generate_signal: the price and
\* volume scores, the relative position (in hundredths), the volatility
\* (in hundredths), the volume ratio and the pressure ratio (in tenths)
PriceScores == {StrongBuyPrice - 1, StrongBuyPrice}
VolumeScores == {StrongSellVolume, StrongSellVolume + 1,
                 StrongBuyVolume - 1, StrongBuyVolume}
PricePositions == {80, 81}
PriceVolatilities == {5, 6}
VolumeRatios == {5, 6}
PressureRatios == {9, 10, 30, 31}

\* adjusted scores are kept in millionths: three factors in hundredths
ScoreScale == 100 * 100 * 100

\* lines 420-423: *= 0.8 for a price in the high zone, *= 0.9 on top of it
\* when the volatility is high
PositionFactor(position, volatility) ==
    IF position > 80
    THEN IF volatility > 5 THEN 80 * 90 ELSE 80 * 100
    ELSE 100 * 100

\* lines 426-430: with an excessive volume, *= 0.85 under selling pressure
\* and *= 0.9 under extreme buying pressure
VolumeFactor(volume_ratio, pressure_ratio) ==
    IF volume_ratio > 5
    THEN IF pressure_ratio < 10 THEN 85
         ELSE IF pressure_ratio > 30 THEN 90
         ELSE 100
    ELSE 100

\* adjusted_score, in millionths
AdjustedScore(a) ==
    a.final_score * PositionFactor(a.price_position, a.price_volatility)
                  * VolumeFactor(a.volume_ratio, a.pressure_ratio)

\* a choice of type that gives strong_buy without looking at the volume
\* and price scores
SignalTypeOf_Uncorroborated(adjusted, volume_score, price_score) ==
    IF adjusted >= StrongBuyScore * ScoreScale THEN "strong_buy"
    ELSE IF adjusted >= BuyScore * ScoreScale THEN "buy"
    ELSE IF adjusted <= StrongSellScore * ScoreScale
            /\ volume_score <= StrongSellVolume THEN "strong_sell"
    ELSE IF adjusted <= SellScore * ScoreScale THEN "sell"
    ELSE None

\* lines 433-446: the if chain that gives the type, or return None
SignalTypeOf(adjusted, volume_score, price_score) ==
    IF /\ adjusted >= StrongBuyScore * ScoreScale
       /\ volume_score >= StrongBuyVolume
       /\ price_score >= StrongBuyPrice THEN "strong_buy"
    ELSE IF adjusted >= BuyScore * ScoreScale THEN "buy"
    ELSE IF adjusted <= StrongSellScore * ScoreScale
            /\ volume_score <= StrongSellVolume THEN "strong_sell"
    ELSE IF adjusted <= SellScore * ScoreScale THEN "sell"
    ELSE None

\* lines 696-706
DetermineSignalType(score) ==
    IF score >= LegacyStrongBuyScore THEN "strong_buy"
    ELSE IF score >= BuyScore THEN "buy"
    ELSE IF score <= LegacyStrongSellScore THEN "strong_sell"
    ELSE IF score <= SellScore THEN "sell"
    ELSE None

\* the arguments of a call of _generate_signal
ScorerArgs ==
    [final_score : 0 .. ScoreMax, price_score : PriceScores,
     volume_score : VolumeScores, price_position : PricePositions,
     price_volatility : PriceVolatilities, volume_ratio : VolumeRatios,
     pressure_ratio : PressureRatios]

\* a call of _generate_signal with the arguments a, run to its return: the
\* signal's type and score (lines 474-482), or None
GenerateSignal(a) ==
    LET adjusted == AdjustedScore(a) IN
    [pc |-> "generated", args |-> a, score |-> adjusted,
     type |-> SignalTypeOf(adjusted, a.volume_score, a.price_score)]

scorerOthers == <<monitorVars, alert_messages, sent_messages, market_monitor,
                  monitors, crypto_top>>

\* _generate_signal is called
Scorer_GenerateSignal ==
    /\ scorer.pc = "idle"
    /\ \E a \in ScorerArgs : scorer' = GenerateSignal(a)
    /\ UNCHANGED scorerOthers

\* _generate_signal is called again with a final score one higher and the
\* other arguments as before
Scorer_RaiseScore ==
    /\ scorer.pc = "generated"
    /\ scorer.args.final_score < ScoreMax
    /\ scorer' = GenerateSignal([scorer.args EXCEPT !.final_score = @ + 1])
    /\ UNCHANGED scorerOthers

\* _determine_signal_type is called with a score, and again with the
\* score one higher
Scorer_DetermineSignalType ==
    /\ \/ /\ scorer.pc = "idle"
          /\ \E score \in 0 .. ScoreMax :
               scorer' = [pc |-> "determined", score |-> score,
                          type |-> DetermineSignalType(score)]
       \/ /\ scorer.pc = "determined"
          /\ scorer.score < ScoreMax
          /\ scorer' = [scorer EXCEPT
                          !.score = @ + 1,
                          !.type = DetermineSignalType(scorer.score + 1)]
    /\ UNCHANGED scorerOthers

(***************************************************************************)
(* TelegramNotifier.rev_alert_message and send_alert_message               *)
(***************************************************************************)
\* alert_messages[i * 5 : (i + 1) * 5]
AlertsPerMessage == 5

\* the texts of the alerts
AlertTexts == {"x", "y"}

\* the lists rev_alert_message is called with
AlertLists == UNION {[1 .. n -> AlertTexts] : n \in 1 .. 2}

\* q[i * size : (i + 1) * size], i counted from 0: a slice that ends at the
\* end of the list, and is empty from there on
Slice(q, i, size) ==
    SubSeq(q, i * size + 1, Min((i + 1) * size, Len(q)))

\* split_num = len(self.alert_messages) // 5 + 1
SplitNum(n) == n \div AlertsPerMessage + 1

notifierOthers == <<monitorVars, scorer, market_monitor, monitors,
                    crypto_top>>

\* self.alert_messages.extend(msgs)
RevAlertMessage ==
    /\ \E msgs \in AlertLists :
         /\ Len(alert_messages) + Len(msgs) <= MaxAlerts
         /\ alert_messages' = alert_messages \o msgs
    /\ UNCHANGED <<sent_messages, notifierOthers>>

\* send_alert_message: one message for every i in range(split_num), made of
\* the alerts of its slice, then the queue is emptied; nothing is done for
\* an empty queue
SendAlertMessage ==
    /\ IF alert_messages # <<>>
       THEN /\ sent_messages' =
                 [i \in 1 .. SplitNum(Len(alert_messages)) |->
                    Slice(alert_messages, i - 1, AlertsPerMessage)]
            /\ alert_messages' = <<>>
       ELSE /\ sent_messages' = <<>>
            /\ UNCHANGED alert_messages
    /\ UNCHANGED notifierOthers

(***************************************************************************)
(* app.py: start_market_monitor, start_monitor and stop_monitor            *)
(***************************************************************************)
appOthers == <<monitorVars, scorer, alert_messages, sent_messages,
               crypto_top>>

\* `if not market_monitor:` (line 83)
NotStarted(global) == global = NoMonitor

\* line 33 in the thread of monitor m: market_monitor = MarketMonitor();
\* the thread then enters start_monitoring, which begins with
\* _initialize_data
StartMarketMonitor_Create(m) ==
    /\ monitors[m].pc = "spawned"
    /\ market_monitor' = m
    /\ monitors' = [monitors EXCEPT ![m].pc = "initializing"]
    /\ UNCHANGED appOthers

\* monitor.py lines 1609-1627 in the thread of monitor m: _initialize_data
\* has returned, self.running.set(), the four worker threads are started
StartMarketMonitor_Start(m) ==
    /\ monitors[m].pc = "initializing"
    /\ monitors' = [monitors EXCEPT ![m].pc = "started",
                                    ![m].running = TRUE,
                                    ![m].workers = TRUE]
    /\ UNCHANGED <<market_monitor, appOthers>>

\* the worker loops of monitor m find the flag cleared and end
Monitor_WorkersExit(m) ==
    /\ monitors[m].workers
    /\ ~monitors[m].running
    /\ monitors' = [monitors EXCEPT ![m].workers = FALSE]
    /\ UNCHANGED <<market_monitor, appOthers>>

\* POST /start_monitor (lines 77-92): initialize_monitor() starts a thread
\* of start_market_monitor when the global is not set, otherwise the
\* answer is a warning
StartMonitorRequest ==
    /\ IF NotStarted(market_monitor)
       THEN \E m \in MonitorIds :
              /\ monitors[m].pc = "none"
              /\ \A k \in MonitorIds : k < m => monitors[k].pc # "none"
              /\ monitors' = [monitors EXCEPT ![m].pc = "spawned"]
       ELSE UNCHANGED monitors
    /\ UNCHANGED <<market_monitor, appOthers>>

\* POST /stop_monitor (lines 57-73): market_monitor.stop() clears the
\* running flag of the monitor the global names, the global is set to None
\* and the answer is success; without a monitor the answer is a warning
StopMonitorRequest ==
    /\ IF market_monitor # NoMonitor
       THEN /\ monitors' = [monitors EXCEPT
                              ![market_monitor].running = FALSE,
                              ![market_monitor].stopped = TRUE]
            /\ market_monitor' = NoMonitor
       ELSE UNCHANGED <<market_monitor, monitors>>
    /\ UNCHANGED appOthers

(***************************************************************************)
(* CryptoTop.add_stream and delete_stream (src/crypto_alert_terminal.py)   *)
(***************************************************************************)
\* what the user types at the prompt, lowered: nothing, a base stream, or
\* the stream of another pair
StreamInputs == {"", "btcusdt@", "dogeusdt@", "xrpusdt@", "adausdt@",
                 "bnbusdt@", "ltcusdt@", "trxusdt@"}

\* stream.upper().replace('@', '')
SymbolOfStream(stream) ==
    CASE stream = "btcusdt@" -> "BTCUSDT"
      [] stream = "dogeusdt@" -> "DOGEUSDT"
      [] stream = "xrpusdt@" -> "XRPUSDT"
      [] stream = "adausdt@" -> "ADAUSDT"
      [] stream = "bnbusdt@" -> "BNBUSDT"
      [] stream = "ltcusdt@" -> "LTCUSDT"
      [] stream = "trxusdt@" -> "TRXUSDT"
      [] OTHER -> ""

\* the elements of a list
Elements(list) == {list[i] : i \in DOMAIN list}

\* list.remove(x): the list without the first x
RECURSIVE ListRemove(_, _)
ListRemove(list, x) ==
    IF list = <<>> THEN <<>>
    ELSE IF Head(list) = x THEN Tail(list)
    ELSE <<Head(list)>> \o ListRemove(Tail(list), x)

\* the test of line 147: len(self.additional_streams) > max
StreamLimitReached(list) == Len(list) > MaxAdditionalStreams

topOthers == <<monitorVars, scorer, alert_messages, sent_messages,
               market_monitor, monitors>>

\* lines 146-175: the limit test, the prompt, and for a new stream the
\* append, the new symbol and a fresh history_price for every symbol
AddStream ==
    /\ IF StreamLimitReached(crypto_top.additional_streams)
       THEN UNCHANGED crypto_top
       ELSE \E new_stream \in StreamInputs :
              IF /\ new_stream # ""
                 /\ new_stream \notin Elements(BaseStreams)
                 /\ new_stream \notin Elements(crypto_top.additional_streams)
              THEN LET syms == Append(crypto_top.symbols,
                                      SymbolOfStream(new_stream)) IN
                   crypto_top' =
                       [additional_streams |->
                            Append(crypto_top.additional_streams, new_stream),
                        symbols |-> syms,
                        history_price |-> Elements(syms)]
              ELSE UNCHANGED crypto_top
    /\ UNCHANGED topOthers

\* lines 177-203: nothing without additional streams; otherwise the prompt,
\* and a stream of the list is removed with its symbol and its history
DeleteStream ==
    /\ IF crypto_top.additional_streams = <<>>
       THEN UNCHANGED crypto_top
       ELSE \E stream_to_delete \in StreamInputs :
              IF stream_to_delete \in Elements(crypto_top.additional_streams)
              THEN LET symbol_to_remove == SymbolOfStream(stream_to_delete) IN
                   crypto_top' =
                       [additional_streams |->
                            ListRemove(crypto_top.additional_streams,
                                       stream_to_delete),
                        symbols |-> ListRemove(crypto_top.symbols,
                                               symbol_to_remove),
                        history_price |->
                            crypto_top.history_price \ {symbol_to_remove}]
              ELSE UNCHANGED crypto_top
    /\ UNCHANGED topOthers

(***************************************************************************)
(* listen_to_stream (src/websocket_listener.py)                            *)
(***************************************************************************)
lsOthers == <<regVars, sideVars, data_lock, running, message_queue, ws, ws_threads,
              upd, proc, ana, now, hist>>

\* the positions at which the coroutine awaits: session.ws_connect, the
\* async for over the websocket, asyncio.sleep(reconnect_delay)
LsAwaits == {"connecting", "connected", "sleeping"}

\* asyncio.create_task(listen_to_stream(...)): the first turn of while True
\* reaches ws_connect; the endpoint refuses the first n attempts
Ls_Start(sc) ==
    /\ ls.pc = "idle"
    /\ \E n \in 0..sc.failures :
         ls' = [ls EXCEPT !.pc = "connecting", !.n = n, !.attempts = 1]
    /\ UNCHANGED lsOthers

\* lines 19-24 and 137-150: ws_connect raises (ClientError, TimeoutError or
\* another Exception), the except clause prints and falls through to the
\* sleep; or the websocket is open
Ls_Connect ==
    /\ ls.pc = "connecting"
    /\ ~ls.cancel_requested
    /\ IF ls.failures < ls.n
       THEN ls' = [ls EXCEPT !.pc = "sleeping", !.failures = @ + 1,
                             !.cause = "refused"]
       ELSE ls' = [ls EXCEPT !.pc = "connected"]
    /\ UNCHANGED lsOthers

\* lines 125-136 and 145-150: a CLOSED or ERROR message breaks the async
\* for, an exception in the handling of a frame leaves it; then the sleep
Ls_Dropped(sc) ==
    /\ ls.pc = "connected"
    /\ ~ls.cancel_requested
    /\ ls.drops < sc.drops
    /\ ls' = [ls EXCEPT !.pc = "sleeping", !.drops = @ + 1,
                        !.cause = "closed"]
    /\ UNCHANGED lsOthers

\* the text frames of the stream: one the handler can handle, one that is
\* not JSON, one without the fields the handler reads, one of a symbol
\* that alert_window.history_price does not hold
LsFrameKinds == {"text", "invalid_json", "missing_field", "unknown_symbol"}

\* what the handling of a text frame raises: json.loads raises
\* JSONDecodeError (lines 28, 114), float(None) TypeError and None.get
\* AttributeError (lines 34, 66, 117), history_price[name] KeyError
\* (lines 37, 71); a frame of the expected shape raises nothing
FrameRaises(kind) ==
    CASE kind = "invalid_json" -> "JSONDecodeError"
      [] kind = "missing_field" -> "TypeError"
      [] kind = "unknown_symbol" -> "KeyError"
      [] OTHER -> None

\* lines 25-124 for one TEXT message of the async for: the frame is handled
\* and the loop waits for the next one; an exception of the handling
\* leaves the async for and both async with blocks, which close the
\* websocket and the session, and is caught at line 145: the task prints
\* it and goes to the sleep before the next connection
Ls_Frame ==
    /\ ls.pc = "connected"
    /\ ~ls.cancel_requested
    /\ ls.frames < MaxListenerFrames
    /\ \E kind \in LsFrameKinds :
         IF FrameRaises(kind) = None
         THEN ls' = [ls EXCEPT !.frames = @ + 1, !.handled = @ + 1]
         ELSE ls' = [ls EXCEPT !.frames = @ + 1, !.pc = "sleeping",
                               !.cause = kind]
    /\ UNCHANGED lsOthers

\* lines 153-154: the sleep is over, the next turn of while True connects
Ls_SleepDone ==
    /\ ls.pc = "sleeping"
    /\ ~ls.cancel_requested
    /\ ls' = [ls EXCEPT !.pc = "connecting", !.delays = @ + 1,
                        !.attempts = @ + 1]
    /\ UNCHANGED lsOthers

\* task.cancel(): CancelledError will be thrown into the coroutine at the
\* await it is suspended in
Ls_Cancel ==
    /\ ls.pc \in LsAwaits
    /\ ~ls.cancel_requested
    /\ ls' = [ls EXCEPT !.cancel_requested = TRUE]
    /\ UNCHANGED lsOthers

\* lines 142-144 and 155-157: except asyncio.CancelledError: break
Ls_Cancelled ==
    /\ ls.pc \in LsAwaits
    /\ ls.cancel_requested
    /\ ls' = [ls EXCEPT !.pc = "cancelled"]
    /\ UNCHANGED lsOthers

(***************************************************************************)
(* Specifications                                                          *)
(***************************************************************************)
TopOf(v, g, l) == [volume |-> v, gainers |-> g, losers |-> l]

\* Buffers: the monitor starts with one or two symbols, one connection
\* stays open and delivers candle and depth frames
ScBuffers == [tops |-> {TopOf({"a"}, {}, {}), TopOf({"a"}, {"b"}, {})},
              levels |-> {LevelsOk},
              rows |-> {InitRowLimit - 1, InitRowLimit},
              scans |-> 0,
              klines |-> MaxKlineFrames,
              depths |-> MaxDepthFrames,
              failures |-> 0,
              drops |-> 0,
              analysis |-> {},
              ticks |-> {},
              clock |-> 0,
              maxticks |-> 0,
              rescan |-> FALSE,
              steps |-> {0},
              kinds |-> StreamKinds,
              queue |-> MaxQueue]

InitBuffers == InitWith({{}}, {FALSE})

NextBuffers ==
    \/ UpdateMonitoringList_Fetch(ScBuffers)
    \/ UpdateMonitoringList_Apply
    \/ Levels_Acquire
    \/ InitializeData_Symbol(ScBuffers)
    \/ InitializeData_End
    \/ StartMonitoring
    \/ \E t \in WsThreadIds :
         \/ Ws_Start(t)
         \/ Ws_Create(t)
         \/ Ws_Opened(t)
         \/ OnMessage(t, ScBuffers)
    \/ ProcessMessages_Get
    \/ ProcessMessages_Handle

SpecBuffers == InitBuffers /\ [][NextBuffers]_vars

\* Registry: the monitor is constructed with or without a core symbol,
\* initialises, starts its threads and rescans; the exchange's answers
\* change between scans, key levels can fail or be zero, and a candle is
\* received and analysed
ScRegistry == [tops |-> {TopOf({"a", "b"}, {}, {}), TopOf({"b"}, {"c"}, {}),
                         EmptyMap},
               levels |-> {LevelsOk, LevelsZero, LevelsError},
               rows |-> {1},
               scans |-> MaxScans,
               klines |-> 1,
               depths |-> 0,
               failures |-> 0,
               drops |-> 0,
               analysis |-> {"insufficient"},
               ticks |-> {},
               clock |-> 0,
               maxticks |-> 0,
               rescan |-> FALSE,
              steps |-> {0},
              kinds |-> StreamKinds,
              queue |-> MaxQueue]

InitRegistry == InitWith(CoreChoices, {FALSE})

NextRegistry ==
    \/ UpdateMonitoringList_Fetch(ScRegistry)
    \/ UpdateMonitoringList_Apply
    \/ Levels_Acquire
    \/ InitializeData_Symbol(ScRegistry)
    \/ InitializeData_End
    \/ PeriodicUpdateLevels_Symbol(ScRegistry)
    \/ PeriodicUpdateLevels_End
    \/ PeriodicUpdateLevels_While
    \/ PeriodicUpdateLevels_Wake(ScRegistry)
    \/ PeriodicUpdateLevels_Except
    \/ StartMonitoring
    \/ \E t \in WsThreadIds : \/ Ws_Start(t)
                              \/ Ws_Create(t)
                              \/ Ws_Opened(t)
                              \/ OnMessage(t, ScRegistry)
    \/ ProcessMessages_Get
    \/ ProcessMessages_Handle
    \/ AnalysisLoop_While
    \/ AnalyzeSymbol(ScRegistry)
    \/ AnalysisLoop_Sleep

SpecRegistry == InitRegistry /\ [][NextRegistry]_vars

\* Alert: two symbols are monitored and receive candles; every ten seconds
\* or more the analysis loop analyses them, and an analysis fails, gives no
\* signal or gives a signal; Telegram is configured or not
ScAlert == [tops |-> {TopOf({"a"}, {"b"}, {})},
            levels |-> {LevelsOk},
            rows |-> {0},
            scans |-> 0,
            klines |-> 2,
            depths |-> 0,
            failures |-> 0,
            drops |-> 0,
            analysis |-> {"error", "none", "strong_buy", "sell"},
            ticks |-> {AnalysisSleep, AlertCooldown - AnalysisSleep},
            clock |-> MaxClock,
            maxticks |-> MaxTicks,
            rescan |-> FALSE,
            steps |-> {0},
            kinds |-> StreamKinds,
            queue |-> MaxQueue]

InitAlert == InitWith({{}}, BOOLEAN)

NextAlert ==
    \/ UpdateMonitoringList_Fetch(ScAlert)
    \/ UpdateMonitoringList_Apply
    \/ Levels_Acquire
    \/ InitializeData_Symbol(ScAlert)
    \/ InitializeData_End
    \/ StartMonitoring
    \/ \E t \in WsThreadIds : \/ Ws_Start(t)
                              \/ Ws_Create(t)
                              \/ Ws_Opened(t)
                              \/ OnMessage(t, ScAlert)
    \/ ProcessMessages_Get
    \/ ProcessMessages_Handle
    \/ AnalysisLoop_While
    \/ AnalyzeSymbol(ScAlert)
    \/ OutputSignals_Continue
    \/ OutputSignals_PdbQuit
    \/ AnalysisLoop_Sleep
    \/ AnalysisLoop_Wake(ScAlert)

SpecAlert == InitAlert /\ [][NextAlert]_vars

\* Strength: one symbol is monitored and receives candles; its analysis
\* gives no signal or a signal of any of the four types, at ticks ten
\* seconds apart or one second short of the cooldown apart
ScStrength == [tops |-> {TopOf({"a"}, {}, {})},
               levels |-> {LevelsOk},
               rows |-> {0},
               scans |-> 0,
               klines |-> 1,
               depths |-> 0,
               failures |-> 0,
               drops |-> 0,
               analysis |-> {"none"} \cup SignalTypes,
               ticks |-> {AnalysisSleep, AlertCooldown - 1 - AnalysisSleep},
               clock |-> MaxClock,
               maxticks |-> MaxTicks,
               rescan |-> FALSE,
               steps |-> {0},
               kinds |-> StreamKinds,
               queue |-> MaxQueue]

NextStrength ==
    \/ UpdateMonitoringList_Fetch(ScStrength)
    \/ UpdateMonitoringList_Apply
    \/ Levels_Acquire
    \/ InitializeData_Symbol(ScStrength)
    \/ InitializeData_End
    \/ StartMonitoring
    \/ \E t \in WsThreadIds : \/ Ws_Start(t)
                              \/ Ws_Create(t)
                              \/ Ws_Opened(t)
                              \/ OnMessage(t, ScStrength)
    \/ ProcessMessages_Get
    \/ ProcessMessages_Handle
    \/ AnalysisLoop_While
    \/ AnalyzeSymbol(ScStrength)
    \/ OutputSignals_Continue
    \/ OutputSignals_PdbQuit
    \/ AnalysisLoop_Sleep
    \/ AnalysisLoop_Wake(ScStrength)

SpecStrength == InitAlert /\ [][NextStrength]_vars

\* Scorer: _generate_signal and _determine_signal_type are called with
\* every score from 0 to 100 and arguments on both sides of their tests
NextScorer ==
    \/ Scorer_GenerateSignal
    \/ Scorer_RaiseScore
    \/ Scorer_DetermineSignalType

InitScorer == InitWith({{}}, {FALSE})

SpecScorer == InitScorer /\ [][NextScorer]_vars

\* Notifier: alerts are queued in lists of one or two and the queue is
\* flushed at any moment
NextNotifier ==
    \/ RevAlertMessage
    \/ SendAlertMessage

SpecNotifier == InitScorer /\ [][NextNotifier]_vars

\* App: app.py has been imported and serves /start_monitor and
\* /stop_monitor requests while the threads of start_market_monitor run
NextApp ==
    \/ \E m \in MonitorIds : \/ StartMarketMonitor_Create(m)
                             \/ StartMarketMonitor_Start(m)
                             \/ Monitor_WorkersExit(m)
    \/ StartMonitorRequest
    \/ StopMonitorRequest

SpecApp == InitScorer /\ [][NextApp]_vars

\* Terminal: the user of CryptoTop adds and deletes streams
NextTerminal ==
    \/ AddStream
    \/ DeleteStream

SpecTerminal == InitScorer /\ [][NextTerminal]_vars

\* Connect: the monitor starts and its websocket threads connect, the
\* endpoint refusing some attempts. A listen_to_stream task connects to an
\* endpoint that refuses its first attempts.
ScConnect == [tops |-> {TopOf({"a"}, {}, {})},
              levels |-> {LevelsOk},
              rows |-> {0},
              scans |-> 0,
              klines |-> 0,
              depths |-> 0,
              failures |-> MaxFailures,
              drops |-> 0,
              analysis |-> {},
              ticks |-> {},
              clock |-> 0,
              maxticks |-> 0,
              rescan |-> FALSE,
              steps |-> {0},
              kinds |-> StreamKinds,
              queue |-> MaxQueue]

InitConnect == InitWith({{}}, {FALSE})

\* the steps of the thread t of _start_websocket, those of its connection
\* included
WsThread(t, sc) ==
    \/ Ws_Start(t)
    \/ Ws_While(t)
    \/ Ws_Create(t)
    \/ Ws_Opened(t)
    \/ Ws_ConnectFailed(t, sc)
    \/ Ws_ConnectRaised(t, sc)
    \/ Ws_OnError(t)
    \/ Ws_OnClose(t)
    \/ Ws_ReconnectSpawn(t)
    \/ Ws_ExceptSleepDone(t)

\* the steps of the main thread up to the start of the worker threads
MainThread(sc) ==
    \/ UpdateMonitoringList_Fetch(sc)
    \/ UpdateMonitoringList_Apply
    \/ Levels_Acquire
    \/ InitializeData_Symbol(sc)
    \/ InitializeData_End
    \/ StartMonitoring

\* the steps of the listen_to_stream task
LsTask(sc) ==
    \/ Ls_Start(sc)
    \/ Ls_Connect
    \/ Ls_SleepDone

\* Reconnect: nothing is stopped or cancelled
NextReconnect ==
    \/ MainThread(ScConnect)
    \/ \E t \in WsThreadIds : WsThread(t, ScConnect)
    \/ LsTask(ScConnect)

\* the threads and the task are scheduled: the system does not halt while
\* one of them can take a step
FairReconnect == WF_vars(NextReconnect)

SpecReconnect == InitConnect /\ [][NextReconnect]_vars /\ FairReconnect

\* Cancel: stop() and cancel() can be called at any moment
NextCancel ==
    \/ NextReconnect
    \/ Stop
    \/ \E t \in WsThreadIds : Ws_LocalClosed(t)
    \/ Ls_Cancel
    \/ Ls_Cancelled

SpecCancel == InitConnect /\ [][NextCancel]_vars

\* Stream: the monitor starts, its websocket thread subscribes and stays
\* connected, and the hourly scan runs again and again, the exchange
\* ranking {a, b} or {b, c}
ScStream == [tops |-> {TopOf({"a", "b"}, {}, {}), TopOf({"b"}, {"c"}, {})},
             levels |-> {LevelsOk},
             rows |-> {0},
             scans |-> 0,
             klines |-> 0,
             depths |-> 0,
             failures |-> 0,
             drops |-> 0,
             analysis |-> {},
             ticks |-> {},
             clock |-> 0,
             maxticks |-> 0,
             rescan |-> TRUE,
             steps |-> {0},
             kinds |-> StreamKinds,
             queue |-> MaxQueue]

NextStream ==
    \/ MainThread(ScStream)
    \/ PeriodicUpdateLevels_While
    \/ PeriodicUpdateLevels_Wake(ScStream)
    \/ PeriodicUpdateLevels_Symbol(ScStream)
    \/ PeriodicUpdateLevels_End
    \/ \E t \in WsThreadIds : \/ Ws_Start(t)
                              \/ Ws_Create(t)
                              \/ Ws_Opened(t)

\* the threads are scheduled: the system does not halt while one of them
\* can take a step
FairStream == WF_vars(NextStream)

SpecStream == InitConnect /\ [][NextStream]_vars /\ FairStream

\* Drop: the monitor starts, its connection opens and is lost, by an I/O
\* error or by the server closing it; a listen_to_stream task connects and
\* loses its connection; nothing is stopped or cancelled
ScDrop == [tops |-> {TopOf({"a"}, {}, {})},
           levels |-> {LevelsOk},
           rows |-> {0},
           scans |-> 0,
           klines |-> 0,
           depths |-> 0,
           failures |-> 0,
           drops |-> MaxFailures,
           analysis |-> {},
           ticks |-> {},
           clock |-> 0,
           maxticks |-> 0,
           rescan |-> FALSE,
           steps |-> {0},
           kinds |-> StreamKinds,
           queue |-> MaxQueue]

NextDrop ==
    \/ MainThread(ScDrop)
    \/ \E t \in WsThreadIds : \/ Ws_Start(t)
                              \/ Ws_While(t)
                              \/ Ws_Create(t)
                              \/ Ws_Opened(t)
                              \/ Ws_Dropped(t, ScDrop)
                              \/ Ws_RemoteClosed(t, ScDrop)
                              \/ Ws_OnError(t)
                              \/ Ws_OnClose(t)
                              \/ Ws_ReconnectSpawn(t)
    \/ LsTask(ScDrop)
    \/ Ls_Dropped(ScDrop)

SpecDrop == InitConnect /\ [][NextDrop]_vars

\* Listener: a listen_to_stream task connects and receives text frames,
\* well-formed or not; the server closes the websocket now and then
NextListener ==
    \/ LsTask(ScDrop)
    \/ Ls_Dropped(ScDrop)
    \/ Ls_Frame

SpecListener == InitScorer /\ [][NextListener]_vars

\* Frames: the monitor starts with two symbols and one connection, which
\* stays open; candle frames update the current bucket or open a new one,
\* other frames are malformed or of no known stream, the hourly scan can
\* drop a symbol, and two frames can wait in the queue
ScFrames == [tops |-> {TopOf({"a", "b"}, {}, {}), TopOf({"b"}, {}, {})},
             levels |-> {LevelsOk},
             rows |-> {0},
             scans |-> 1,
             klines |-> 2,
             depths |-> 1,
             failures |-> 0,
             drops |-> 0,
             analysis |-> {},
             ticks |-> {},
             clock |-> 0,
             maxticks |-> 0,
             rescan |-> FALSE,
             steps |-> {0, 1},
             kinds |-> FrameKinds,
             queue |-> 2]

NextFrames ==
    \/ MainThread(ScFrames)
    \/ PeriodicUpdateLevels_While
    \/ PeriodicUpdateLevels_Wake(ScFrames)
    \/ PeriodicUpdateLevels_Symbol(ScFrames)
    \/ PeriodicUpdateLevels_End
    \/ \E t \in WsThreadIds : \/ Ws_Start(t)
                              \/ Ws_Create(t)
                              \/ Ws_Opened(t)
                              \/ OnMessage(t, ScFrames)
    \/ ProcessMessages_Get
    \/ ProcessMessages_Handle

SpecFrames == InitConnect /\ [][NextFrames]_vars

\* Halt: the monitor starts and runs its four loops without end, a
\* connection attempt can fail, and stop() can be called at any moment; the
\* server does not close a connection of its own accord
ScHalt == [tops |-> {TopOf({"a"}, {}, {})},
           levels |-> {LevelsOk},
           rows |-> {0},
           scans |-> 0,
           klines |-> 0,
           depths |-> 0,
           failures |-> MaxFailures,
           drops |-> 0,
           analysis |-> {"none"},
           ticks |-> {},
           clock |-> 0,
           maxticks |-> 0,
           rescan |-> TRUE,
           steps |-> {0},
           kinds |-> StreamKinds,
           queue |-> MaxQueue]

NextHalt ==
    \/ MainThread(ScHalt)
    \/ PeriodicUpdateLevels_While
    \/ PeriodicUpdateLevels_Wake(ScHalt)
    \/ PeriodicUpdateLevels_Symbol(ScHalt)
    \/ PeriodicUpdateLevels_End
    \/ \E t \in WsThreadIds : \/ WsThread(t, ScHalt)
                              \/ Ws_LocalClosed(t)
    \/ ProcessMessages_Exit
    \/ AnalysisLoop_While
    \/ AnalyzeSymbol(ScHalt)
    \/ AnalysisLoop_Sleep
    \/ AnalysisLoop_Wake(ScHalt)
    \/ Stop

\* the threads are scheduled: the system does not halt while one of them
\* can take a step
FairHalt == WF_vars(NextHalt)

SpecHalt == InitConnect /\ [][NextHalt]_vars /\ FairHalt

\* Batch: the monitor starts with the symbols a and b, candles arrive, and
\* while the analysis loop works through its batch the hourly scan replaces
\* a by c
ScBatch == [tops |-> {TopOf({"a", "b"}, {}, {}), TopOf({"b"}, {"c"}, {})},
            levels |-> {LevelsOk},
            rows |-> {0},
            scans |-> 1,
            klines |-> 2,
            depths |-> 0,
            failures |-> 0,
            drops |-> 0,
            analysis |-> {"none"},
            ticks |-> {},
            clock |-> 0,
            maxticks |-> 0,
            rescan |-> FALSE,
            steps |-> {0},
            kinds |-> {"kline"},
            queue |-> MaxQueue]

NextBatch ==
    \/ MainThread(ScBatch)
    \/ PeriodicUpdateLevels_While
    \/ PeriodicUpdateLevels_Wake(ScBatch)
    \/ PeriodicUpdateLevels_Symbol(ScBatch)
    \/ PeriodicUpdateLevels_End
    \/ \E t \in WsThreadIds : \/ Ws_Start(t)
                              \/ Ws_Create(t)
                              \/ Ws_Opened(t)
                              \/ OnMessage(t, ScBatch)
    \/ ProcessMessages_Get
    \/ ProcessMessages_Handle
    \/ AnalysisLoop_While
    \/ AnalyzeSymbol(ScBatch)
    \/ AnalysisLoop_Sleep

SpecBatch == InitConnect /\ [][NextBatch]_vars

(***************************************************************************)
(* Properties                                                              *)
(***************************************************************************)

\* the most recent cap of n pushes, oldest first
MostRecent(n, cap) == [i \in 1..Min(n, cap) |-> n - Min(n, cap) + i]

\* C1: every candle buffer holds at most 100 entries and every depth buffer
\* at most 20, and each holds exactly the most recent entries pushed to it,
\* in arrival order (on overflow the oldest entry is the one evicted)
C1_BoundedBuffers ==
    /\ \A s \in DOMAIN kline_buffers :
         /\ Len(kline_buffers[s]) <= KlineMaxLen
         /\ kline_buffers[s] = MostRecent(hist.kline_pushed[s], KlineMaxLen)
    /\ \A s \in DOMAIN volume_buffers :
         /\ Len(volume_buffers[s]) <= VolumeMaxLen
         /\ volume_buffers[s] = MostRecent(hist.volume_pushed[s], VolumeMaxLen)

\* a candle buffer and a depth buffer have both overflowed
C1_Witness ==
    /\ \E s \in DOMAIN kline_buffers : hist.kline_pushed[s] > KlineMaxLen
    /\ \E s \in DOMAIN volume_buffers : hist.volume_pushed[s] > VolumeMaxLen

\* update_monitoring_list has just returned to its caller
ScanReturned == upd.pc = "loop" /\ upd.todo = hist.scan_target

\* the maps that hold state of symbol s
MapsHolding(s) ==
    {m \in {"kline_buffers", "volume_buffers", "key_levels", "latest_data",
            "last_alert_time", "kline_data_buffers"} :
       s \in DOMAIN (CASE m = "kline_buffers" -> kline_buffers
                       [] m = "volume_buffers" -> volume_buffers
                       [] m = "key_levels" -> key_levels
                       [] m = "latest_data" -> latest_data
                       [] m = "last_alert_time" -> last_alert_time
                       [] OTHER -> kline_data_buffers)}

\* C6: once a scan has removed a symbol that was monitored, the symbol is
\* not in the monitored list and none of the monitor's maps (candle buffers,
\* depth buffers, key levels, latest data, last alert time, cached
\* multi-timeframe history) holds state for it
C6_NoStateAfterRemoval ==
    ScanReturned =>
        \A s \in upd.removed : s \notin symbols /\ MapsHolding(s) = {}

\* a scan has removed a symbol whose history the analysis had cached
C6_Witness ==
    /\ ScanReturned
    /\ \E s \in upd.removed : s \in DOMAIN kline_data_buffers

\* the thread of _initialize_data and _periodic_update_levels is inside a
\* pass: between the call of update_monitoring_list and the end of the for
\* loop over the symbols, the filter of the list included
PassInProgress == upd.pc \in {"scan", "ul_apply", "loop", "levels"}

\* C22: whenever no scan or refresh pass is in progress, the monitored
\* list, the keys of the candle buffers and the keys of the depth buffers
\* are the same set, also after a pass that rolled a symbol back or that
\* ended with an error part-way through
C22_SingleSourceOfTruth ==
    ~PassInProgress =>
        /\ DOMAIN kline_buffers = symbols
        /\ DOMAIN volume_buffers = symbols

\* a refresh pass has ended with an error after it had rolled a symbol back
C22_Witness ==
    /\ upd.pc = "err_sleep"
    /\ upd.to_remove # {}

\* C7: when initialisation or a scan pass is over, every monitored symbol
\* has key levels that were computed without failure and without a zero
\* level; a symbol whose computation failed or gave a zero level is not
\* monitored and has no buffers
C7_KeyLevelsComputed ==
    upd.pc \in {"start", "while"} =>
        /\ \A s \in symbols :
             /\ s \in DOMAIN key_levels
             /\ ZeroCheck(key_levels[s]) = "nonzero"
        /\ \A s \in Symbols \ symbols :
             MapsHolding(s) \subseteq {"kline_data_buffers"}

\* initialisation is over and the key levels of a monitored symbol are the
\* error record of a failed computation
C7_Witness ==
    /\ upd.pc = "start"
    /\ \E s \in symbols : s \in DOMAIN key_levels /\ key_levels[s] = LevelsError

\* a cached value is a pair of a resistance list and a support list
IsLevelPair(v) == DOMAIN v = {"resistances", "supports"}

\* C26: the key levels that the other workers can see (data_lock is not
\* held by the thread that computes them) are for every symbol absent or
\* a complete pair of support and resistance lists: a computation that
\* fails leaves no error record in the cache
C26_LevelsComplete ==
    data_lock # "upd" =>
        \A s \in DOMAIN key_levels : IsLevelPair(key_levels[s])

\* a refresh pass has ended at a failed computation, the lock is free and
\* the cache holds the error record for a monitored symbol
C26_Witness ==
    /\ upd.pc = "err_sleep"
    /\ data_lock = None
    /\ \E s \in symbols :
         s \in DOMAIN key_levels /\ key_levels[s] = LevelsError

\* C27: a scan whose provider query failed (get_top_symbols returned no
\* lists) leaves the monitored list as it was and, in its update of the
\* maps, removes no symbol's state and deletes no buffer
C27_FailedScanKeepsState ==
    [][ /\ (upd.pc \in {"init", "scan"} /\ upd'.pc = "ul_apply"
                                        /\ hist'.scan_failed) =>
              symbols' = symbols
        /\ (upd.pc = "ul_apply" /\ upd'.pc = "loop" /\ hist.scan_failed) =>
              UNCHANGED mapVars
      ]_vars

\* a scan whose query failed has returned: symbols were monitored before
\* it, and now the list and the buffers are empty
C27_Witness ==
    /\ ScanReturned
    /\ hist.scan_failed
    /\ hist.scan_prior # {}
    /\ symbols = {}
    /\ kline_buffers = EmptyMap
    /\ volume_buffers = EmptyMap

\* C8: a scan with prior set P and target set T reports added = T \ P and
\* removed = P \ T, ends with the monitored set equal to T, and its update
\* of the maps creates empty buffers exactly for the added symbols, deletes
\* the state of exactly the removed symbols and leaves every other entry
\* as it was
C8_ScanDiff ==
    [][ (upd.pc = "ul_apply" /\ upd'.pc = "loop") =>
          LET P == hist.scan_prior
              T == hist.scan_target
          IN /\ upd.added = T \ P
             /\ upd.removed = P \ T
             /\ symbols' = T
             /\ DOMAIN kline_buffers' = (DOMAIN kline_buffers \cup (T \ P)) \ (P \ T)
             /\ DOMAIN volume_buffers' = (DOMAIN volume_buffers \cup (T \ P)) \ (P \ T)
             /\ \A s \in T \ P : kline_buffers'[s] = <<>> /\ volume_buffers'[s] = <<>>
             /\ \A s \in DOMAIN kline_buffers' \ (T \ P) :
                  kline_buffers'[s] = kline_buffers[s]
             /\ \A s \in DOMAIN volume_buffers' \ (T \ P) :
                  volume_buffers'[s] = volume_buffers[s]
             /\ key_levels' = [s \in DOMAIN key_levels \ (P \ T) |-> key_levels[s]]
             /\ latest_data' = [s \in DOMAIN latest_data \ (P \ T) |-> latest_data[s]]
             /\ last_alert_time' =
                  [s \in DOMAIN last_alert_time \ (P \ T) |-> last_alert_time[s]]
      ]_vars

\* the scan of the example: prior {a, b}, target {b, c}, with a candle
\* already buffered for b
C8_Witness ==
    /\ ScanReturned
    /\ hist.scan_prior = {"a", "b"}
    /\ hist.scan_target = {"b", "c"}
    /\ upd.added = {"c"}
    /\ upd.removed = {"a"}
    /\ DOMAIN kline_buffers = {"b", "c"}
    /\ kline_buffers["b"] # <<>>
    /\ kline_buffers["c"] = <<>>

\* C9: after every scan the symbols given to the constructor are monitored,
\* whatever the three ranked lists contain
C9_CoreMonitored ==
    (ScanReturned /\ ~hist.scan_failed) => user_define_symbols \subseteq symbols

\* a scan has returned for a monitor constructed with a core symbol
C9_Witness ==
    /\ ScanReturned
    /\ ~hist.scan_failed
    /\ user_define_symbols # {}
    /\ hist.scan_target # {}

\* C4: a signal for a symbol is suppressed (nothing output, last_alert_time
\* unchanged) exactly when an alert for that symbol was output less than
\* the cooldown before; an alert is output only when the cooldown since the
\* last output alert for the symbol has elapsed, and the output of an alert
\* ends with last_alert_time of the symbol set to the tick's time
C4_Cooldown ==
    [][ LET e == hist'.event IN
        /\ (e # hist.event /\ e.kind = "suppressed") =>
              /\ e.s \in DOMAIN hist.last_output
              /\ e.time - hist.last_output[e.s] < AlertCooldown
              /\ last_alert_time' = last_alert_time
              /\ hist'.last_output = hist.last_output
        /\ (e # hist.event /\ e.kind = "printed") =>
              (e.s \in DOMAIN hist.last_output =>
                   e.time - hist.last_output[e.s] >= AlertCooldown)
        /\ (ana.pc = "pdb" /\ ana'.pc # "pdb") =>
              /\ ana.cur \in DOMAIN last_alert_time'
              /\ last_alert_time'[ana.cur] = ana.time
      ]_vars

\* an alert is being output for a symbol for which an alert was output
\* less than the cooldown before
C4_Witness ==
    /\ ana.pc = "pdb"
    /\ hist.event.kind = "printed"
    /\ hist.gap >= 0
    /\ hist.gap < AlertCooldown

\* C19: the cooldown of a strong signal is strictly shorter than that of a
\* plain one: a strong_buy or strong_sell signal is suppressed only when
\* less time has passed since the last alert of the symbol than the longest
\* time at which a buy or sell signal is still suppressed
C19_StrengthCooldown ==
    [][ LET e == hist'.event IN
        (e # hist.event /\ e.kind = "suppressed"
                        /\ hist'.signal \in StrongTypes) =>
            e.time - last_alert_time[e.s] < AlertCooldown - 1
      ]_vars

\* a strong signal was suppressed one second before the cooldown of a
\* plain signal ends
C19_Witness ==
    /\ hist.event.kind = "suppressed"
    /\ hist.signal \in StrongTypes
    /\ hist.event.s \in DOMAIN last_alert_time
    /\ hist.event.time - last_alert_time[hist.event.s] = AlertCooldown - 1

\* C20: with a notification channel configured, the output of every signal
\* that passed the cooldown gate, whatever its type, makes the one
\* notification call of the signal and then sets last_alert_time of the
\* symbol to the tick's time
C20_OneNotification ==
    [][ (telegram /\ OutputSignals_Continue) =>
            /\ hist'.event = Event("sent", ana.cur, ana.time)
            /\ ana.cur \in DOMAIN last_alert_time'
            /\ last_alert_time'[ana.cur] = ana.time
      ]_vars

\* with Telegram configured a sell signal passed the gate and was output:
\* last_alert_time was set and no notification call was made
C20_Witness ==
    /\ telegram
    /\ hist.signal = "sell"
    /\ hist.event.kind = "set"
    /\ hist.event.s \in DOMAIN last_alert_time
    /\ last_alert_time[hist.event.s] = hist.event.time

\* C21: when the delivery of a notification fails, here by an error raised
\* while the message is formatted, last_alert_time of the symbol is what a
\* successful delivery leaves, the tick's time, and the loop goes on with
\* the symbols that are left in the tick
C21_DeliveryFailure ==
    [][ (telegram /\ OutputSignals_Continue /\ hist'.event.kind = "raised") =>
            /\ ana.cur \in DOMAIN last_alert_time'
            /\ last_alert_time'[ana.cur] = ana.time
            /\ ana'.pc = "for"
            /\ ana'.todo = ana.todo
      ]_vars

\* the formatting of the notification of a signal raised an error and the
\* symbol has no last_alert_time
C21_Witness ==
    /\ telegram
    /\ hist.signal \in TelegramTypes
    /\ hist.event.kind = "raised"
    /\ ana.pc = "for"
    /\ hist.event.s \notin DOMAIN last_alert_time

\* the categories from the most bearish to the most bullish, no signal in
\* the middle
Rank(type) ==
    CASE type = "strong_sell" -> 0
      [] type = "sell" -> 1
      [] type = "buy" -> 3
      [] type = "strong_buy" -> 4
      [] OTHER -> 2

\* the type is the one category the claim gives for a score (in units of
\* 1/scale) with the thresholds strong_buy, buy, sell and strong_sell and
\* the corroboration of a strong buy (up) and of a strong sell (down)
OneCategory(type, score, scale, strong_buy, buy, sell, strong_sell, up, down) ==
    /\ type \in SignalTypes \cup {None}
    /\ type = "strong_buy" => score >= strong_buy * scale /\ up
    /\ (score >= buy * scale /\ type # "strong_buy") => type = "buy"
    /\ type = "buy" => score >= buy * scale
    /\ type = "strong_sell" => score <= strong_sell * scale /\ down
    /\ (score <= sell * scale /\ type # "strong_sell") => type = "sell"
    /\ type = "sell" => score <= sell * scale
    /\ (sell * scale < score /\ score < buy * scale) => type = None

RECURSIVE Flatten(_)
Flatten(messages) ==
    IF messages = <<>> THEN <<>>
    ELSE Head(messages) \o Flatten(Tail(messages))

\* C24: send_alert_message delivers every queued alert once and in queue
\* order, in messages of one to five alerts each, and leaves the queue
\* empty; with an empty queue it sends nothing
C24_BatchDelivery ==
    [][ SendAlertMessage =>
          /\ Flatten(sent_messages') = alert_messages
          /\ \A i \in DOMAIN sent_messages' :
                /\ Len(sent_messages'[i]) >= 1
                /\ Len(sent_messages'[i]) <= AlertsPerMessage
          /\ alert_messages' = <<>>
          /\ alert_messages = <<>> => sent_messages' = <<>>
      ]_vars

\* a queue of exactly five alerts was flushed: a message without any alert
\* was sent after the message of five
C24_Witness ==
    /\ alert_messages = <<>>
    /\ Len(sent_messages) = 2
    /\ Len(sent_messages[1]) = AlertsPerMessage
    /\ sent_messages[2] = <<>>

\* C25: a text frame that cannot be parsed or handled is dropped and the
\* websocket session goes on: the receipt of a frame never ends the
\* session, and no connection attempt is made because of a frame
C25_BadFrameKeepsSession ==
    [][ /\ ls'.frames # ls.frames =>
              /\ ls'.pc = "connected"
              /\ ls'.attempts = ls.attempts
        /\ ls'.attempts > ls.attempts => ls.cause \notin LsFrameKinds
      ]_vars

\* the task has connected again after a frame that could not be handled
\* had ended its session
C25_Witness ==
    /\ ls.pc = "connected"
    /\ ls.cause \in LsFrameKinds
    /\ ls.attempts >= 2
    /\ ls.drops = 0

\* the monitors that exist and have not been stopped: created and being
\* started, or running
LiveMonitors ==
    {m \in MonitorIds : \/ monitors[m].pc = "initializing" /\ ~monitors[m].stopped
                        \/ monitors[m].running}

\* C28: whatever the interleaving of the start-up and of /start_monitor
\* requests, at most one MarketMonitor is created and running at a time
C28_SingleMonitor == Cardinality(LiveMonitors) <= 1

\* two monitors run at the same time, and the global names one of them
C28_Witness ==
    /\ Cardinality({m \in MonitorIds : monitors[m].running}) >= 2
    /\ market_monitor # NoMonitor

\* C29: a monitor that a /stop_monitor request has stopped with success
\* never has its running flag set again, and no worker of it is started
C29_StoppedStaysStopped ==
    [][ \A m \in MonitorIds :
          monitors[m].stopped =>
              /\ ~monitors'[m].running
              /\ monitors'[m].workers => monitors[m].workers
      ]_vars

\* a monitor that was stopped while it was initialising runs, and the
\* global does not name it
C29_Witness ==
    \E m \in MonitorIds :
        /\ monitors[m].stopped
        /\ monitors[m].running
        /\ monitors[m].workers
        /\ market_monitor # m

\* C30: after any sequence of add_stream and delete_stream the number of
\* additional streams is at most max_additional_streams, and add_stream
\* leaves the list as it is when the maximum has been reached
C30_StreamLimit ==
    [][ /\ Len(crypto_top'.additional_streams) <= MaxAdditionalStreams
        /\ Len(crypto_top.additional_streams) >= MaxAdditionalStreams =>
              Len(crypto_top'.additional_streams)
                  <= Len(crypto_top.additional_streams)
      ]_vars

\* CryptoTop has one additional stream more than the maximum
C30_Witness ==
    Len(crypto_top.additional_streams) = MaxAdditionalStreams + 1

\* C5: when a tick of the analysis loop is over, every symbol of the list
\* the tick iterated was analysed (or passed over for want of a candle),
\* whether or not the analysis of another symbol raised an error
C5_FailureIsolation ==
    ana.pc = "sleep" =>
        /\ hist.analysed \cup hist.skipped = hist.tick_symbols
        /\ hist.analysed \cap hist.skipped = {}

\* a tick over two symbols is over: the analysis of one raised an error,
\* the other was analysed without one
C5_Witness ==
    /\ ana.pc = "sleep"
    /\ Cardinality(hist.tick_symbols) = 2
    /\ hist.raised # {}
    /\ hist.analysed \ hist.raised # {}

\* C2: when nothing is cancelled, the stream ingestor is eventually
\* connected, having slept no more reconnect delays than connection attempts
\* have failed: the listen_to_stream task whose endpoint refuses n attempts,
\* and the websocket threads of the monitor
C2_ReconnectLiveness ==
    /\ <>(/\ ls.pc = "connected"
          /\ ls.failures = ls.n
          /\ ls.delays <= ls.n)
    /\ <>(\E t \in WsThreadIds :
            /\ ws_threads[t].pc = "open"
            /\ ws_threads[t].delays <= hist.failures)

\* both ingestors are connected after MaxFailures failed attempts each,
\* reconnect delays slept, and nothing was cancelled
C2_Witness ==
    /\ ~ls.cancel_requested
    /\ ~hist.stop_requested
    /\ ls.pc = "connected"
    /\ ls.failures = MaxFailures
    /\ ls.delays = MaxFailures
    /\ hist.failures = MaxFailures
    /\ \E t \in WsThreadIds :
         /\ ws_threads[t].pc = "open"
         /\ ws_threads[t].delays >= 1
         /\ ws_threads[t].delays <= hist.failures

\* C3: once cancellation has been requested (the listener task cancelled,
\* or the running flag cleared by stop), no new connection attempt is
\* started
C3_NoAttemptAfterCancel ==
    [][ /\ ls.cancel_requested => ls'.attempts = ls.attempts
        /\ hist.stop_requested => hist'.attempts = hist.attempts
      ]_vars

\* a websocket thread has started a connection after stop() returned
C3_Witness == hist.late_attempt

\* the connection that is open subscribes to the monitored set
Subscribed ==
    \E t \in WsThreadIds :
        ws_threads[t].pc = "open" /\ ws_threads[t].streams = symbols

\* C10: whenever a scan has changed the monitored set, a connection is
\* eventually open whose subscription list is the monitored set
C10_Resubscribed ==
    [](ScanReturned /\ hist.scan_prior # hist.scan_target => <>Subscribed)

\* a scan has changed the monitored set while a connection is open with
\* the subscription list of the set before
C10_Witness ==
    /\ ScanReturned
    /\ hist.scan_prior # hist.scan_target
    /\ \E t \in WsThreadIds :
         ws_threads[t].pc = "open" /\ ws_threads[t].streams = hist.scan_prior

\* the threads whose connection is open, and those inside _start_websocket
\* or one of its callbacks
OpenConnections == {t \in WsThreadIds : ws_threads[t].pc = "open"}
ConnectionLoops == {t \in WsThreadIds : ws_threads[t].pc \notin {"none", "exit"}}

\* C11: at every moment the monitor has at most one open streaming
\* connection and at most one connection loop running, whatever errors,
\* remote closes and reconnects came before
C11_SingleConnection ==
    /\ Cardinality(OpenConnections) <= 1
    /\ Cardinality(ConnectionLoops) <= 1

\* after one lost connection two connections are open at once
C11_Witness ==
    /\ hist.drops = 1
    /\ ~hist.stop_requested
    /\ Cardinality(OpenConnections) >= 2

\* the workers that are inside a blocking call: the REST calls of
\* analyze_key_level and get_kline_data in the key-level loops, and the
\* debugger prompt followed by the Telegram request in _output_signals
Blocked ==
    {w \in {"upd", "ana"} :
       \/ w = "upd" /\ upd.pc = "levels"
       \/ w = "ana" /\ ana.pc = "pdb"}

\* C12: a worker that is inside a blocking operation does not hold the
\* shared data lock, so the handling of a received frame never waits for
\* another worker's network call
C12_NoBlockingUnderLock == data_lock \notin Blocked

\* a received frame waits for the lock while the key-level thread holds it
\* across its REST call
C12_Witness ==
    /\ proc.pc = "handle"
    /\ upd.pc = "levels"
    /\ data_lock = "upd"

\* the message-processing thread hands a candle frame to _handle_kline_data
\* whose open time is that of the last candle of the symbol's buffer
SameBucketUpdate ==
    /\ proc.pc = "handle"
    /\ proc.msg.stream = "kline"
    /\ proc.msg.s \in DOMAIN kline_buffers
    /\ kline_buffers[proc.msg.s] # <<>>
    /\ hist.kline_time[proc.msg.s] = proc.msg.t

\* C13: a candle update with the open time of the update applied just
\* before it for the symbol replaces that candle: the length of the series
\* is unchanged and its last element is the new update
C13_ReplaceSameBucket ==
    [][ (SameBucketUpdate /\ proc'.pc = "get") =>
          LET s == proc.msg.s IN
          /\ Len(kline_buffers'[s]) = Len(kline_buffers[s])
          /\ kline_buffers'[s][Len(kline_buffers'[s])] = hist'.kline_pushed[s]
      ]_vars

\* two updates of one bucket have been applied to a symbol back-to-back and
\* its buffer holds both
C13_Witness ==
    \E s \in DOMAIN kline_buffers :
        /\ Len(kline_buffers[s]) = 2
        /\ hist.kline_pushed[s] = 2
        /\ hist.klines = 2
        /\ hist.bucket = 0
        /\ hist.kline_time[s] = 0

\* the frame the message-processing thread holds is one to drop: it is
\* malformed, of no known stream, or of a symbol without buffers
Droppable ==
    /\ proc.pc = "handle"
    /\ \/ proc.msg.stream \notin StreamKinds
       \/ proc.msg.stream = "kline" /\ proc.msg.s \notin DOMAIN kline_buffers
       \/ proc.msg.stream = "depth" /\ proc.msg.s \notin DOMAIN volume_buffers

\* C14: the handling of a frame that is malformed, of an unrecognised
\* stream or of a symbol that is not in the registry changes no per-symbol
\* state, leaves the connections as they are, and ends with the
\* message-processing thread back at its queue; the thread never ends while
\* the monitor runs
C14_BadFrameDropped ==
    [][ /\ (Droppable /\ proc' # proc) =>
              /\ UNCHANGED mapVars
              /\ UNCHANGED <<symbols, ws, ws_threads, message_queue>>
              /\ proc'.pc = "get"
        /\ running' => proc'.pc # "exit"
      ]_vars

\* a frame that is malformed or of no known stream was received and
\* dropped, the connection is open, and a frame received later was applied
C14_Witness ==
    /\ hist.bad >= 1
    /\ hist.dropped
    /\ hist.after_drop
    /\ \E t \in WsThreadIds : ws_threads[t].pc = "open"

\* the websocket thread t starts a connection attempt
Attempts(t) ==
    ws_threads[t].pc = "create" /\ ws_threads'[t].pc = "connecting"

WorkersExited ==
    /\ proc.pc = "exit"
    /\ ana.pc = "exit"
    /\ upd.pc = "exit"

\* no connection is open or being opened and no connection loop is running
ConnectionsClosed ==
    \A t \in WsThreadIds : ws_threads[t].pc \in {"none", "exit"}

\* C16: after stop() has been called, eventually every connection the
\* monitor has opened is closed and every worker loop has exited
C16_StopCompletes ==
    hist.stop_requested ~> (ConnectionsClosed /\ WorkersExited)

\* stop() has returned, the worker loops have ended, and a connection is
\* open that nothing will close
C16_Witness ==
    /\ hist.stop_requested
    /\ WorkersExited
    /\ \E t \in WsThreadIds :
         /\ ws_threads[t].pc = "open"
         /\ ~ws_threads[t].closing
    /\ \A t \in WsThreadIds : ws_threads[t].pc \in {"none", "exit", "open"}

\* the message-processing thread hands a frame to the handler of its
\* stream, which will append it to the buffer of its symbol
Applies ==
    /\ proc.pc = "handle"
    /\ \/ proc.msg.stream = "kline" /\ proc.msg.s \in DOMAIN kline_buffers
       \/ proc.msg.stream = "depth" /\ proc.msg.s \in DOMAIN volume_buffers

\* C17: the candle and depth frames of a symbol are applied in the order
\* in which they were received: every frame applied was received after the
\* frame of its symbol and stream applied before it (none is applied out
\* of order, none twice), and it adds one entry to the symbol's buffer or,
\* when the buffer is full, replaces its oldest entry
C17_ArrivalOrder ==
    [][ (Applies /\ proc' # proc) =>
          LET k == proc.msg.stream
              s == proc.msg.s
              pushed == IF k = "kline" THEN "kline_pushed" ELSE "volume_pushed"
          IN /\ proc.msg.n > hist.applied[k][s]
             /\ hist'.applied[k][s] = proc.msg.n
             /\ hist'[pushed][s] = hist[pushed][s] + 1
      ]_vars

\* two candle frames of one symbol have been received and both have been
\* applied, the second after the first
C17_Witness ==
    \E s \in DOMAIN kline_buffers :
        /\ hist.received["kline"][s] = 2
        /\ hist.applied["kline"][s] = 2
        /\ Len(kline_buffers[s]) = 2
        /\ message_queue = <<>>
        /\ proc.pc = "get"

\* the last scan has removed s: its update of the maps (lines 104-116) is
\* done
RemovedByScan(s) == s \in upd.removed /\ upd.pc # "ul_apply"

\* C18: when the analysis loop comes to a symbol of its batch that a scan
\* has removed in the meantime, the symbol is passed over: no error is
\* raised and no map is read or written for it; a symbol is analysed only
\* while its buffers exist; every symbol handled belongs to the list the
\* batch started with (a symbol added during the batch is not analysed in
\* it), and when the batch is over all of that list has been handled
C18_MidBatchChange ==
    [][ /\ (ana.pc = "for" /\ ana'.todo # ana.todo) =>
              \A s \in ana.todo \ ana'.todo :
                 /\ s \in hist.tick_symbols
                 /\ RemovedByScan(s) =>
                       /\ s \in hist'.skipped
                       /\ s \notin hist'.analysed \cup hist'.raised
                       /\ UNCHANGED mapVars
                 /\ s \in hist'.analysed =>
                       s \in DOMAIN latest_data \cap DOMAIN kline_buffers
                               \cap DOMAIN volume_buffers
        /\ (ana.pc = "for" /\ ana'.pc = "sleep") =>
              /\ hist.analysed \cup hist.skipped = hist.tick_symbols
              /\ hist.analysed \cap hist.skipped = {}
      ]_vars

\* a batch over a and b is over: a had a candle when the batch began, was
\* removed by the scan during the batch and was passed over; b was analysed;
\* c, added by that scan, was not part of the batch
C18_Witness ==
    /\ ana.pc = "sleep"
    /\ hist.tick_symbols = {"a", "b"}
    /\ "a" \in hist.tick_data
    /\ "a" \in hist.skipped
    /\ RemovedByScan("a")
    /\ "b" \in hist.analysed
    /\ "c" \in symbols
    /\ "c" \notin hist.analysed \cup hist.skipped

====
